---------------------------- MODULE Spec2Model ----------------------------
(***************************************************************************)
(* Read-only analytics API over a business / review / photo store, the     *)
(* script that seeds the store, the request-scoped database session and    *)
(* the JSON file repository.                                               *)
(*                                                                         *)
(* The stored tables are chosen by Init and never written by a request.    *)
(* A request is handled by one action: the service method with every       *)
(* repository call it makes.  The handler leaves its answer in `response`  *)
(* and the repository calls it made, in order, in `calls`; Return ends the *)
(* request.                                                                *)
(*                                                                         *)
(* Text is a sequence of one-character strings, so that case mapping,      *)
(* LIKE patterns and trigrams are computed rather than assumed.  A date is *)
(* a civil triple <<year, month, day>>.  An ORDER BY that leaves ties is a *)
(* choice among every row order the keys allow.                            *)
(***************************************************************************)
EXTENDS Integers, Sequences, FiniteSets, TLC

VARIABLES businesses, reviews, pc, request, response, calls,
          photos, session, seed, repository

vars == <<businesses, reviews, pc, request, response, calls,
          photos, session, seed, repository>>

(***************************************************************************)
(* Bounds of the model.                                                    *)
(***************************************************************************)
\* business ids B1..B<NumBusinesses> may be stored
NumBusinesses == 3
\* coordinates and viewport bounds range over 0..GridMax
GridMax == 2
\* skip ranges over 0..MaxSkip, limit over 1..MaxLimit
MaxSkip == 2
MaxLimit == 2

(***************************************************************************)
(* Values.                                                                 *)
(***************************************************************************)
\* Python's None for an optional text argument (no text holds this token)
NoneStr == <<"None">>
\* Python's None for an optional date argument
NoneDate == <<>>
\* a repository result of None (scalar_one_or_none found no row)
NoRow == [business_id |-> "None"]

HTTP_200_OK == 200
HTTP_400_BAD_REQUEST == 400
HTTP_404_NOT_FOUND == 404

Min(a, b) == IF a <= b THEN a ELSE b

BusinessIds == {"B1", "B2", "B3", "B4", "B5"}
StoredIdPool == <<"B1", "B2", "B3", "B4">>
StorableIds == {StoredIdPool[i] : i \in 1..Min(NumBusinesses, Len(StoredIdPool))}

\* str.upper() / str.lower() on the letters the model's texts use
UpperOf == [c \in {"p", "a", "n", "j"} |->
              CASE c = "p" -> "P" [] c = "a" -> "A" [] c = "n" -> "N" [] c = "j" -> "J"]
LowerOf == [c \in {"P", "A", "N", "J", "I"} |->
              CASE c = "P" -> "p" [] c = "A" -> "a" [] c = "N" -> "n" [] c = "J" -> "j"
                [] c = "I" -> "i"]
upper(s) == [i \in 1..Len(s) |-> IF s[i] \in DOMAIN UpperOf THEN UpperOf[s[i]] ELSE s[i]]
lower(s) == [i \in 1..Len(s) |-> IF s[i] \in DOMAIN LowerOf THEN LowerOf[s[i]] ELSE s[i]]

(***************************************************************************)
(* The businesses table of the listing / viewport / lookup model.          *)
(***************************************************************************)
PA == <<"P", "A">>
NJ == <<"N", "J">>
pa == <<"p", "a">>
Phil == <<"P", "h", "i", "l">>
Pitt == <<"P", "i", "t", "t">>

Business(id, name, city, state, lat, lon, stars, rc, cats) ==
    [business_id |-> id, name |-> name, city |-> city, state |-> state,
     latitude |-> lat, longitude |-> lon, stars |-> stars, review_count |-> rc,
     categories |-> cats]

\* what a stored business of the listing model may look like
ListingProfiles == [id \in BusinessIds |->
    { Business(id, <<"x">>, Phil, PA, 1, 1, 4, 10, <<"f">>),
      Business(id, <<"x">>, Pitt, PA, 0, 2, 4, 10, <<"f">>),
      Business(id, <<"x">>, Phil, NJ, 2, 0, 5, 3, <<"f">>),
      Business(id, <<"x">>, Phil, pa, 1, 2, 4, 20, <<"f">>) }]

\* every table with at most one row per id (business_id is the primary key)
RECURSIVE TablesOver(_, _)
TablesOver(ids, profiles) ==
    IF ids = {} THEN {{}}
    ELSE LET id == CHOOSE x \in ids : TRUE
             rest == TablesOver(ids \ {id}, profiles)
         IN  rest \cup {t \cup {b} : t \in rest, b \in profiles[id]}

(***************************************************************************)
(* ORDER BY stars DESC, review_count DESC: every order of the rows that    *)
(* the two keys allow (the database is free in the order of ties).         *)
(***************************************************************************)
StarsBefore(a, b) ==
    \/ a.stars > b.stars
    \/ a.stars = b.stars /\ a.review_count > b.review_count

RECURSIVE OrderByStars(_)
OrderByStars(rows) ==
    IF rows = {} THEN {<<>>}
    ELSE UNION { {<<x>> \o t : t \in OrderByStars(rows \ {x})} :
                 x \in {y \in rows : \A z \in rows : ~StarsBefore(z, y)} }

\* OFFSET skip LIMIT limit
OffsetLimit(seq, skip, limit) == SubSeq(seq, skip + 1, Min(skip + limit, Len(seq)))

(***************************************************************************)
(* BusinessRepository                                                      *)
(***************************************************************************)
get_by_id(business_id) ==
    IF \E b \in businesses : b.business_id = business_id
    THEN CHOOSE b \in businesses : b.business_id = business_id
    ELSE NoRow

get_all_where(b, state, city) ==
    /\ state # NoneStr => b.state = state
    /\ city # NoneStr => b.city = city

\* the results get_all may return
get_all(state, city, skip, limit) ==
    { OffsetLimit(ord, skip, limit) :
        ord \in OrderByStars({b \in businesses : get_all_where(b, state, city)}) }

get_in_viewport_where_Strict(b, south, north, west, east) ==
    /\ b.latitude > south
    /\ b.latitude < north
    /\ b.longitude > west
    /\ b.longitude < east

get_in_viewport_where(b, south, north, west, east) ==
    /\ b.latitude >= south
    /\ b.latitude <= north
    /\ b.longitude >= west
    /\ b.longitude <= east

\* the results get_in_viewport may return
get_in_viewport(south, north, west, east, limit) ==
    { OffsetLimit(ord, 0, limit) :
        ord \in OrderByStars({b \in businesses :
                                get_in_viewport_where(b, south, north, west, east)}) }

(***************************************************************************)
(* BusinessService                                                         *)
(***************************************************************************)
\* a handler whose session deletes the stored businesses and commits
Respond_Deleting(req, status, body, made) ==
    /\ pc = "idle"
    /\ pc' = "done"
    /\ request' = req
    /\ response' = [status |-> status, body |-> body]
    /\ calls' = made
    /\ businesses' = {}
    /\ reviews' = reviews
    /\ UNCHANGED <<photos, session, seed, repository>>

Respond(req, status, body, made) ==
    /\ pc = "idle"
    /\ pc' = "done"
    /\ request' = req
    /\ response' = [status |-> status, body |-> body]
    /\ calls' = made
    /\ UNCHANGED <<businesses, reviews, photos, session, seed, repository>>

get_business_by_id_found_Always(business) == TRUE

\* `if not business` is false
get_business_by_id_found(business) == business # NoRow

get_business_by_id(business_id) ==
    LET business == get_by_id(business_id)
        req == [op |-> "get_business_by_id", business_id |-> business_id]
    IN  IF ~get_business_by_id_found(business)
        THEN Respond(req, HTTP_404_NOT_FOUND, <<>>, <<"get_by_id">>)
        ELSE Respond(req, HTTP_200_OK, <<business>>, <<"get_by_id">>)

normalized_state_AsGiven(state) == state

\* state.upper() if state else None
normalized_state(state) ==
    IF state # NoneStr /\ state # <<>> THEN upper(state) ELSE NoneStr

get_businesses(state, city, skip, limit) ==
    \E result \in get_all(normalized_state(state), city, skip, limit) :
        Respond([op |-> "get_businesses", state |-> state, city |-> city,
                 skip |-> skip, limit |-> limit],
                HTTP_200_OK, result, <<"get_all">>)

viewport_bounds_invalid_LatOnly(south, north, west, east) == south >= north

\* either check of the bounds raises
viewport_bounds_invalid(south, north, west, east) ==
    \/ south >= north
    \/ west >= east

get_businesses_in_viewport(south, north, west, east, limit) ==
    LET req == [op |-> "get_businesses_in_viewport", south |-> south, north |-> north,
                west |-> west, east |-> east, limit |-> limit]
    IN  IF viewport_bounds_invalid(south, north, west, east)
        THEN Respond(req, HTTP_400_BAD_REQUEST, <<>>, <<>>)
        ELSE \E result \in get_in_viewport(south, north, west, east, limit) :
                Respond(req, HTTP_200_OK, result, <<"get_in_viewport">>)

(***************************************************************************)
(* The requests of the listing model, as the endpoints admit them: state   *)
(* is absent or two characters, city absent or non-empty, skip >= 0,       *)
(* limit >= 1.                                                             *)
(***************************************************************************)
StateArgs == {NoneStr, PA, pa, NJ}
CityArgs == {NoneStr, Phil, Pitt}

GetBusinessById ==
    /\ pc = "idle"
    /\ \E id \in BusinessIds : get_business_by_id(id)

GetBusinesses ==
    /\ pc = "idle"
    /\ \E state \in StateArgs, city \in CityArgs, skip \in 0..MaxSkip, limit \in 1..MaxLimit :
        get_businesses(state, city, skip, limit)

GetBusinessesInViewport ==
    /\ pc = "idle"
    /\ \E south \in 0..GridMax, north \in 0..GridMax, west \in 0..GridMax,
          east \in 0..GridMax, limit \in 1..MaxLimit :
          get_businesses_in_viewport(south, north, west, east, limit)

\* the answer is delivered and the request ends
Return ==
    /\ pc = "done"
    /\ pc' = "idle"
    /\ request' = [op |-> "none"]
    /\ response' = [status |-> 0, body |-> <<>>]
    /\ calls' = <<>>
    /\ UNCHANGED <<businesses, reviews, photos, session, seed, repository>>

\* no request-scoped session has been opened
NoSession == [state |-> "none"]
\* the seed script is not running
NoSeed == [phase |-> "none"]
\* no JSON repository has been constructed
NoRepository == [file |-> "none"]

\* the parts of the program that an API request does not touch are at rest
AtRest ==
    /\ photos = {}
    /\ session = NoSession
    /\ seed = NoSeed
    /\ repository = NoRepository

Idle ==
    /\ pc = "idle"
    /\ request = [op |-> "none"]
    /\ response = [status |-> 0, body |-> <<>>]
    /\ calls = <<>>

Init ==
    /\ businesses \in TablesOver(StorableIds, ListingProfiles)
    /\ reviews = {}
    /\ Idle
    /\ AtRest

Next ==
    \/ GetBusinessById
    \/ GetBusinesses
    \/ GetBusinessesInViewport
    \/ Return

Spec == Init /\ [][Next]_vars

(***************************************************************************)
(* Text functions of the search.                                           *)
(***************************************************************************)
\* str.strip(): leading and trailing whitespace removed
RECURSIVE lstrip(_)
lstrip(s) == IF s # <<>> /\ Head(s) = " " THEN lstrip(Tail(s)) ELSE s

RECURSIVE rstrip(_)
rstrip(s) == IF s # <<>> /\ s[Len(s)] = " " THEN rstrip(SubSeq(s, 1, Len(s) - 1)) ELSE s

strip(s) == rstrip(lstrip(s))

\* str.split(): the maximal runs of non-whitespace characters, in order
RECURSIVE split(_)
split(s) ==
    LET t == lstrip(s)
        n == IF \E i \in 1..Len(t) : t[i] = " "
             THEN (CHOOSE i \in 1..Len(t) : t[i] = " " /\ \A j \in 1..(i - 1) : t[j] # " ") - 1
             ELSE Len(t)
    IN  IF t = <<>> THEN <<>>
        ELSE <<SubSeq(t, 1, n)>> \o split(SubSeq(t, n + 1, Len(t)))

\* s LIKE p: in the pattern, % stands for any run of characters and _ for any
\* one character; every other character stands for itself
RECURSIVE Like(_, _)
Like(s, p) ==
    IF p = <<>> THEN s = <<>>
    ELSE IF Head(p) = "%"
         THEN Like(s, Tail(p)) \/ (s # <<>> /\ Like(Tail(s), p))
         ELSE /\ s # <<>>
              /\ Head(p) = "_" \/ Head(p) = Head(s)
              /\ Like(Tail(s), Tail(p))

\* column.ilike(pattern): LIKE without regard to case
ilike(s, p) == Like(lower(s), lower(p))

\* f"%{term}%": the term goes into the pattern as it is
term_pattern(term) == <<"%">> \o term \o <<"%">>

\* pg_trgm: a word is a maximal run of letters and digits of the lower-cased
\* text; it is padded with two blanks before and one after, and its trigrams
\* are the three-character windows of the padded word
NonWordChars == {" ", ",", "%", "_", "&", "'"}

RECURSIVE Words(_)
Words(s) ==
    LET nw(t) == IF \E i \in 1..Len(t) : t[i] \in NonWordChars
                 THEN (CHOOSE i \in 1..Len(t) :
                          t[i] \in NonWordChars /\ \A j \in 1..(i - 1) : t[j] \notin NonWordChars) - 1
                 ELSE Len(t)
    IN  IF s = <<>> THEN {}
        ELSE IF Head(s) \in NonWordChars THEN Words(Tail(s))
        ELSE {SubSeq(s, 1, nw(s))} \cup Words(SubSeq(s, nw(s) + 1, Len(s)))

Trigrams(s) ==
    UNION { LET padded == <<" ", " ">> \o w \o <<" ">>
            IN  {SubSeq(padded, i, i + 2) : i \in 1..(Len(padded) - 2)} :
            w \in Words(lower(s)) }

\* similarity(a, b): shared trigrams over all trigrams, as a fraction
\* (0 when neither text has a trigram)
similarity(a, b) ==
    LET ta == Trigrams(a)
        tb == Trigrams(b)
    IN  IF ta \cup tb = {} THEN [num |-> 0, den |-> 1]
        ELSE [num |-> Cardinality(ta \cap tb), den |-> Cardinality(ta \cup tb)]

\* the threshold 0.3 as ThresholdNum / ThresholdDen
ThresholdNum == 3
ThresholdDen == 10

\* similarity(a, b) > 0.3
similar(a, b) ==
    LET sim == similarity(a, b)
    IN  sim.num * ThresholdDen > ThresholdNum * sim.den

(***************************************************************************)
(* BusinessRepository.search                                               *)
(***************************************************************************)
query_clean(query) == lower(strip(query))

term_condition_StateFuzzy(b, term) ==
    \/ ilike(b.name, term_pattern(term))
    \/ ilike(b.city, term_pattern(term))
    \/ ilike(b.state, term_pattern(term))
    \/ ilike(b.categories, term_pattern(term))
    \/ similar(b.name, term)
    \/ similar(b.city, term)
    \/ similar(b.state, term)
    \/ similar(b.categories, term)

\* the condition one term adds
term_condition(b, term) ==
    \/ ilike(b.name, term_pattern(term))
    \/ ilike(b.city, term_pattern(term))
    \/ ilike(b.state, term_pattern(term))
    \/ ilike(b.categories, term_pattern(term))
    \/ similar(b.name, term)
    \/ similar(b.city, term)
    \/ similar(b.categories, term)

where_clause_AllTerms(b, terms) ==
    \A i \in 1..Len(terms) : term_condition(b, terms[i])

\* or_(*conditions) of no conditions is false
where_clause_FalseWhenEmpty(b, terms) ==
    \E i \in 1..Len(terms) : term_condition(b, terms[i])

\* or_(*conditions) if conditions else True
where_clause(b, terms) ==
    IF terms = <<>> THEN TRUE
    ELSE \E i \in 1..Len(terms) : term_condition(b, terms[i])

EXACT_NAME == 100
EXACT_CITY == 90
EXACT_STATE == 85
WEIGHT_NAME == 50
WEIGHT_CITY == 40
WEIGHT_CATEGORIES == 30
PARTIAL_NAME == 20
PARTIAL_CITY == 15
PARTIAL_CATEGORIES == 10

\* case((lower(name) == q, 100), (lower(city) == q, 90), (lower(state) == q, 85), else_=0)
exact_match(b, q) ==
    CASE lower(b.name) = q -> EXACT_NAME
      [] lower(b.name) # q /\ lower(b.city) = q -> EXACT_CITY
      [] lower(b.name) # q /\ lower(b.city) # q /\ lower(b.state) = q -> EXACT_STATE
      [] OTHER -> 0

\* case((name.ilike(%q%), 20), (city.ilike(%q%), 15), (categories.ilike(%q%), 10), else_=0)
partial_match(b, q) ==
    CASE ilike(b.name, term_pattern(q)) -> PARTIAL_NAME
      [] ~ilike(b.name, term_pattern(q)) /\ ilike(b.city, term_pattern(q)) -> PARTIAL_CITY
      [] ~ilike(b.name, term_pattern(q)) /\ ~ilike(b.city, term_pattern(q))
         /\ ilike(b.categories, term_pattern(q)) -> PARTIAL_CATEGORIES
      [] OTHER -> 0

\* NULL, and coalesce(x, 0); the three text columns are NOT NULL, so a
\* similarity is never NULL here
SqlNull == [num |-> 0, den |-> 0]
coalesce(x, default) == IF x = SqlNull THEN default ELSE x

\* the relevance score as a fraction num / den
relevance_score(b, q) ==
    LET zero == [num |-> 0, den |-> 1]
        sn == coalesce(similarity(b.name, q), zero)
        sc == coalesce(similarity(b.city, q), zero)
        sk == coalesce(similarity(b.categories, q), zero)
    IN  [num |-> (exact_match(b, q) + partial_match(b, q)) * sn.den * sc.den * sk.den
                 + WEIGHT_NAME * sn.num * sc.den * sk.den
                 + WEIGHT_CITY * sc.num * sn.den * sk.den
                 + WEIGHT_CATEGORIES * sk.num * sn.den * sc.den,
         den |-> sn.den * sc.den * sk.den]

FracGreater(x, y) == x.num * y.den > y.num * x.den
FracEqual(x, y) == x.num * y.den = y.num * x.den

RelevanceBefore_NoScore(a, b, q) == StarsBefore(a, b)

RelevanceBefore_ScoreOnly(a, b, q) ==
    FracGreater(relevance_score(a, q), relevance_score(b, q))

\* order_by(relevance_score.desc(), Business.stars.desc(), Business.review_count.desc())
RelevanceBefore(a, b, q) ==
    \/ FracGreater(relevance_score(a, q), relevance_score(b, q))
    \/ FracEqual(relevance_score(a, q), relevance_score(b, q)) /\ StarsBefore(a, b)

RECURSIVE OrderByRelevance(_, _)
OrderByRelevance(rows, q) ==
    IF rows = {} THEN {<<>>}
    ELSE UNION { {<<x>> \o t : t \in OrderByRelevance(rows \ {x}, q)} :
                 x \in {y \in rows : \A z \in rows : ~RelevanceBefore(z, y, q)} }

\* the rows the WHERE clause keeps
search_matches(query) ==
    {b \in businesses : where_clause(b, split(query_clean(query)))}

\* the results search may return
search(query, skip, limit) ==
    { OffsetLimit(ord, skip, limit) :
        ord \in OrderByRelevance(search_matches(query), query_clean(query)) }

\* BusinessService.search_businesses
search_businesses(query, skip, limit) ==
    \E result \in search(query, skip, limit) :
        Respond([op |-> "search_businesses", query |-> query, skip |-> skip, limit |-> limit],
                HTTP_200_OK, result, <<"search">>)

(***************************************************************************)
(* The search model: its businesses table and its queries (q has at least  *)
(* one character).                                                         *)
(***************************************************************************)
Joe == <<"J", "o", "e">>
Joey == <<"J", "o", "e", "y">>
Ito == <<"I", "t", "o">>
Pad == <<"P", "a", "d">>
bar == <<"b", "a", "r">>
joe_bar == <<"j", "o", "e", ",", "b", "a", "r">>

SearchProfiles == [id \in BusinessIds |->
    { Business(id, Joe, Ito, PA, 0, 0, 4, 10, bar),
      Business(id, Joey, Ito, NJ, 0, 0, 5, 3, joe_bar),
      Business(id, Ito, Joe, PA, 0, 0, 4, 10, bar),
      Business(id, Pad, Pad, NJ, 0, 0, 4, 20, bar) }]

Queries ==
    { <<"j", "o", "e">>,
      <<" ", "J", "o", "e", " ">>,
      <<"j", "o">>,
      <<"p", "a">>,
      <<"p", "a", "d">>,
      <<"b", "a", "r">>,
      <<"i", "t", "o", " ", "b", "a", "r">>,
      <<"I", "t", "o", " ", "p", "a", "d">>,
      <<"P", "a", "d", " ", " ", "z">>,
      <<"_">>,
      <<"z">>,
      <<" ">> }

SearchBusinesses ==
    /\ pc = "idle"
    /\ \E query \in Queries, skip \in 0..MaxSkip, limit \in 1..MaxLimit :
          search_businesses(query, skip, limit)

InitSearch ==
    /\ businesses \in TablesOver(StorableIds, SearchProfiles)
    /\ reviews = {}
    /\ Idle
    /\ AtRest

NextSearch ==
    \/ SearchBusinesses
    \/ Return

SpecSearch == InitSearch /\ [][NextSearch]_vars

(***************************************************************************)
(* Dates.  A stored date is a civil triple; date_trunc yields a timestamp, *)
(* held as its day number (days since 1970-01-01, a Thursday), and         *)
(* isoformat turns a timestamp into its civil date and time of day.  The   *)
(* session time zone is taken to be UTC.                                   *)
(***************************************************************************)
\* a <= b on civil dates
DateLE(a, b) ==
    \/ a[1] < b[1]
    \/ a[1] = b[1] /\ a[2] < b[2]
    \/ a[1] = b[1] /\ a[2] = b[2] /\ a[3] <= b[3]

days_from_civil(d) ==
    LET y == IF d[2] <= 2 THEN d[1] - 1 ELSE d[1]
        era == y \div 400
        yoe == y - era * 400
        mp == IF d[2] > 2 THEN d[2] - 3 ELSE d[2] + 9
        doy == (153 * mp + 2) \div 5 + d[3] - 1
        doe == yoe * 365 + yoe \div 4 - yoe \div 100 + doy
    IN  era * 146097 + doe - 719468

civil_from_days(n) ==
    LET z == n + 719468
        era == z \div 146097
        doe == z - era * 146097
        yoe == (doe - doe \div 1460 + doe \div 36524 - doe \div 146096) \div 365
        doy == doe - (365 * yoe + yoe \div 4 - yoe \div 100)
        mp == (5 * doy + 2) \div 153
        d == doy - (153 * mp + 2) \div 5 + 1
        m == IF mp < 10 THEN mp + 3 ELSE mp - 9
    IN  <<IF m <= 2 THEN yoe + era * 400 + 1 ELSE yoe + era * 400, m, d>>

valid_periods == {"day", "week", "month", "year"}

date_trunc_SundayWeek(period, d) ==
    CASE period = "day" -> days_from_civil(d)
      [] period = "week" -> days_from_civil(d) - ((days_from_civil(d) + 4) % 7)
      [] period = "month" -> days_from_civil(<<d[1], d[2], 1>>)
      [] period = "year" -> days_from_civil(<<d[1], 1, 1>>)

\* func.date_trunc(period, Review.date); a week starts on its Monday
date_trunc(period, d) ==
    CASE period = "day" -> days_from_civil(d)
      [] period = "week" -> days_from_civil(d) - ((days_from_civil(d) + 3) % 7)
      [] period = "month" -> days_from_civil(<<d[1], d[2], 1>>)
      [] period = "year" -> days_from_civil(<<d[1], 1, 1>>)

\* row.period_start.isoformat(): date_trunc yields a timestamp, so the text
\* has the date and the time of day, <<year, month, day, hour, minute, second>>
\* (a truncated date is a midnight; the zone suffix is left out)
isoformat(timestamp) == civil_from_days(timestamp) \o <<0, 0, 0>>

\* start_date.isoformat() if start_date else None
isoformat_or_none(d) == IF d # NoneDate THEN d ELSE NoneDate

(***************************************************************************)
(* Aggregates.  An average is the fraction sum / count in lowest terms.    *)
(***************************************************************************)
Abs(x) == IF x < 0 THEN -x ELSE x

RECURSIVE GCD(_, _)
GCD(a, b) == IF b = 0 THEN a ELSE GCD(b, a % b)

RECURSIVE SumOf(_, _)
SumOf(rows, field) ==
    IF rows = {} THEN 0
    ELSE LET r == CHOOSE x \in rows : TRUE
         IN  r[field] + SumOf(rows \ {r}, field)

avg_Sum(rows, field) == [num |-> SumOf(rows, field), den |-> 1]

\* func.avg(column) over a group (a group is never empty)
avg(rows, field) ==
    LET total == SumOf(rows, field)
        g == GCD(Abs(total), Cardinality(rows))
    IN  [num |-> total \div g, den |-> Cardinality(rows) \div g]

\* float(x) if x else 0.0
float_or_zero(x) == IF x.num = 0 THEN [num |-> 0, den |-> 1] ELSE x

\* func.count(func.distinct(Review.business_id))
\* every stored business is counted, whether or not it has a row in the group
count_distinct_business_Stored(rows) == Cardinality(businesses)

count_distinct_business(rows) == Cardinality({r.business_id : r \in rows})

date_filter_Exclusive(r, start_date, end_date) ==
    /\ start_date # NoneDate => DateLE(start_date, r.date) /\ start_date # r.date
    /\ end_date # NoneDate => DateLE(r.date, end_date) /\ end_date # r.date

\* either bound admits a review
date_filter_Either(r, start_date, end_date) ==
    \/ start_date # NoneDate /\ DateLE(start_date, r.date)
    \/ end_date # NoneDate /\ DateLE(r.date, end_date)
    \/ start_date = NoneDate /\ end_date = NoneDate

\* if start_date: Review.date >= start_date;  if end_date: Review.date <= end_date
date_filter(r, start_date, end_date) ==
    /\ start_date # NoneDate => DateLE(start_date, r.date)
    /\ end_date # NoneDate => DateLE(r.date, end_date)

\* .where(Review.business_id == business_id)
business_reviews(business_id, start_date, end_date) ==
    {r \in reviews : r.business_id = business_id /\ date_filter(r, start_date, end_date)}

city_reviews_AnyState(city, state, start_date, end_date) ==
    {r \in reviews :
        /\ \E b \in businesses : b.business_id = r.business_id /\ b.city = city
        /\ date_filter(r, start_date, end_date)}

\* .join(Business, ...).where(and_(Business.city == city, Business.state == state))
city_reviews(city, state, start_date, end_date) ==
    {r \in reviews :
        /\ \E b \in businesses :
              b.business_id = r.business_id /\ b.city = city /\ b.state = state
        /\ date_filter(r, start_date, end_date)}

\* the state query filtered with strict bounds while the business query
\* keeps the inclusive ones
state_reviews_Exclusive(state, start_date, end_date) ==
    {r \in reviews :
        /\ \E b \in businesses : b.business_id = r.business_id /\ b.state = state
        /\ date_filter_Exclusive(r, start_date, end_date)}

\* .join(Business, ...).where(Business.state == state)
state_reviews(state, start_date, end_date) ==
    {r \in reviews :
        /\ \E b \in businesses : b.business_id = r.business_id /\ b.state = state
        /\ date_filter(r, start_date, end_date)}

\* GROUP BY period: one group per period that has a row
group_by(rows, period) ==
    { [period_start |-> p, rows |-> {r \in rows : date_trunc(period, r.date) = p}] :
        p \in {date_trunc(period, r.date) : r \in rows} }

\* ORDER BY period_start: every order of the rows that the key allows
RECURSIVE order_by_period(_)
order_by_period(rowset) ==
    IF rowset = {} THEN {<<>>}
    ELSE UNION { {<<x>> \o t : t \in order_by_period(rowset \ {x})} :
                 x \in {y \in rowset : \A z \in rowset : y.period_start <= z.period_start} }

\* the one order of rows whose periods differ
ordered(rowset) == CHOOSE L \in order_by_period(rowset) : TRUE

(***************************************************************************)
(* ReviewRepository: the timelines                                         *)
(***************************************************************************)
rating_select(g) ==
    [period_start |-> g.period_start,
     avg_rating |-> avg(g.rows, "stars"),
     review_count |-> Cardinality(g.rows)]

sentiment_select(g) ==
    [period_start |-> g.period_start,
     avg_sentiment_score |-> avg(g.rows, "sentiment_score_prob_diff"),
     avg_sentiment_expected |-> avg(g.rows, "sentiment_score_expected"),
     review_count |-> Cardinality(g.rows)]

rating_point(row) ==
    [period_start |-> isoformat(row.period_start),
     avg_rating |-> float_or_zero(row.avg_rating),
     review_count |-> row.review_count]

sentiment_point(row) ==
    [period_start |-> isoformat(row.period_start),
     avg_sentiment_score |-> float_or_zero(row.avg_sentiment_score),
     avg_sentiment_expected |-> float_or_zero(row.avg_sentiment_expected),
     review_count |-> row.review_count]

\* the same with the business_count column
WithCount(rec, n) == [f \in DOMAIN rec \cup {"business_count"} |->
                         IF f = "business_count" THEN n ELSE rec[f]]

rating_select_counted(g) == WithCount(rating_select(g), count_distinct_business(g.rows))
sentiment_select_counted(g) == WithCount(sentiment_select(g), count_distinct_business(g.rows))
rating_point_counted(row) == WithCount(rating_point(row), row.business_count)
sentiment_point_counted(row) == WithCount(sentiment_point(row), row.business_count)

\* [ {...} for row in rows ]
rating_points(rows) == [i \in 1..Len(rows) |-> rating_point(rows[i])]
sentiment_points(rows) == [i \in 1..Len(rows) |-> sentiment_point(rows[i])]
rating_points_counted(rows) == [i \in 1..Len(rows) |-> rating_point_counted(rows[i])]
sentiment_points_counted(rows) == [i \in 1..Len(rows) |-> sentiment_point_counted(rows[i])]

get_business_ratings_over_time(business_id, period, start_date, end_date) ==
    rating_points(ordered({rating_select(g) :
                   g \in group_by(business_reviews(business_id, start_date, end_date), period)}))

get_business_sentiment_over_time(business_id, period, start_date, end_date) ==
    sentiment_points(ordered({sentiment_select(g) :
                   g \in group_by(business_reviews(business_id, start_date, end_date), period)}))

get_city_ratings_over_time(city, state, period, start_date, end_date) ==
    rating_points_counted(ordered({rating_select_counted(g) :
                   g \in group_by(city_reviews(city, state, start_date, end_date), period)}))

get_state_ratings_over_time(state, period, start_date, end_date) ==
    rating_points_counted(ordered({rating_select_counted(g) :
                   g \in group_by(state_reviews(state, start_date, end_date), period)}))

get_city_sentiment_over_time(city, state, period, start_date, end_date) ==
    sentiment_points_counted(ordered({sentiment_select_counted(g) :
                   g \in group_by(city_reviews(city, state, start_date, end_date), period)}))

get_state_sentiment_over_time(state, period, start_date, end_date) ==
    sentiment_points_counted(ordered({sentiment_select_counted(g) :
                   g \in group_by(state_reviews(state, start_date, end_date), period)}))

(***************************************************************************)
(* ReviewRepository: the paired comparisons.  One UNION ALL of the         *)
(* business query (business_count is the literal 1) and the peer query,    *)
(* each row tagged with its origin, ordered by period_start alone; the     *)
(* rows are then dealt into two lists by their tag.                        *)
(***************************************************************************)
Tagged(rec, tag) == [f \in DOMAIN rec \cup {"data_type"} |->
                        IF f = "data_type" THEN tag ELSE rec[f]]

\* the rows of the business query of a ratings comparison
business_ratings_query(business_id, period, start_date, end_date) ==
    { Tagged(WithCount(rating_select(g), 1), "business") :
        g \in group_by(business_reviews(business_id, start_date, end_date), period) }

\* the rows of the business query of a sentiment comparison
business_sentiment_query(business_id, period, start_date, end_date) ==
    { Tagged(WithCount(sentiment_select(g), 1), "business") :
        g \in group_by(business_reviews(business_id, start_date, end_date), period) }

split_business_All(rows) == rows

\* the rows with row.data_type == 'business', in their order
split_business(rows) == SelectSeq(rows, LAMBDA row : row.data_type = "business")

split_peer_All(rows) == rows

\* the other rows, in their order
split_peer(rows) == SelectSeq(rows, LAMBDA row : row.data_type # "business")

get_business_and_city_ratings_comparison(business_id, city, state, period, start_date, end_date) ==
    LET city_query ==
          { Tagged(rating_select_counted(g), "city") :
              g \in group_by(city_reviews(city, state, start_date, end_date), period) }
    IN  { [business_data |-> rating_points_counted(split_business(rows)),
           peer_data |-> rating_points_counted(split_peer(rows))] :
          rows \in order_by_period(
                     business_ratings_query(business_id, period, start_date, end_date)
                     \cup city_query) }

get_business_and_state_ratings_comparison(business_id, state, period, start_date, end_date) ==
    LET state_query ==
          { Tagged(rating_select_counted(g), "state") :
              g \in group_by(state_reviews(state, start_date, end_date), period) }
    IN  { [business_data |-> rating_points_counted(split_business(rows)),
           peer_data |-> rating_points_counted(split_peer(rows))] :
          rows \in order_by_period(
                     business_ratings_query(business_id, period, start_date, end_date)
                     \cup state_query) }

get_business_and_city_sentiment_comparison(business_id, city, state, period, start_date, end_date) ==
    LET city_query ==
          { Tagged(sentiment_select_counted(g), "city") :
              g \in group_by(city_reviews(city, state, start_date, end_date), period) }
    IN  { [business_data |-> sentiment_points_counted(split_business(rows)),
           peer_data |-> sentiment_points_counted(split_peer(rows))] :
          rows \in order_by_period(
                     business_sentiment_query(business_id, period, start_date, end_date)
                     \cup city_query) }

get_business_and_state_sentiment_comparison(business_id, state, period, start_date, end_date) ==
    LET state_query ==
          { Tagged(sentiment_select_counted(g), "state") :
              g \in group_by(state_reviews(state, start_date, end_date), period) }
    IN  { [business_data |-> sentiment_points_counted(split_business(rows)),
           peer_data |-> sentiment_points_counted(split_peer(rows))] :
          rows \in order_by_period(
                     business_sentiment_query(business_id, period, start_date, end_date)
                     \cup state_query) }

(***************************************************************************)
(* AnalyticsService                                                        *)
(***************************************************************************)
\* _validate_period does not raise
validate_period_Any(period) == TRUE

validate_period(period) == period \in valid_periods

valid_metrics_Any == {"rating", "sentiment", "stars"}

valid_metrics == {"rating", "sentiment"}

\* _validate_metric does not raise
validate_metric(metric) == metric \in valid_metrics

\* `if not business` is false
business_exists(business) == business # NoRow

InvalidPeriod == [detail |-> "Invalid period"]
InvalidMetric == [detail |-> "Invalid metric"]
BusinessNotFound == [detail |-> "Business not found"]

get_business_ratings_timeline(business_id, period, start_date, end_date) ==
    LET req == [op |-> "get_business_ratings_timeline", business_id |-> business_id,
                period |-> period, start_date |-> start_date, end_date |-> end_date]
        business == get_by_id(business_id)
    IN  IF ~validate_period(period)
        THEN Respond(req, HTTP_400_BAD_REQUEST, InvalidPeriod, <<>>)
        ELSE IF ~business_exists(business)
        THEN Respond(req, HTTP_404_NOT_FOUND, BusinessNotFound, <<"get_by_id">>)
        ELSE Respond(req, HTTP_200_OK,
                     [business_id |-> business_id,
                      business_name |-> business.name,
                      period |-> period,
                      metric |-> "rating",
                      start_date |-> isoformat_or_none(start_date),
                      end_date |-> isoformat_or_none(end_date),
                      data |-> get_business_ratings_over_time(
                                   business_id, period, start_date, end_date)],
                     <<"get_by_id", "get_business_ratings_over_time">>)

get_business_sentiment_timeline(business_id, period, start_date, end_date) ==
    LET req == [op |-> "get_business_sentiment_timeline", business_id |-> business_id,
                period |-> period, start_date |-> start_date, end_date |-> end_date]
        business == get_by_id(business_id)
    IN  IF ~validate_period(period)
        THEN Respond(req, HTTP_400_BAD_REQUEST, InvalidPeriod, <<>>)
        ELSE IF ~business_exists(business)
        THEN Respond(req, HTTP_404_NOT_FOUND, BusinessNotFound, <<"get_by_id">>)
        ELSE Respond(req, HTTP_200_OK,
                     [business_id |-> business_id,
                      business_name |-> business.name,
                      period |-> period,
                      metric |-> "sentiment",
                      start_date |-> isoformat_or_none(start_date),
                      end_date |-> isoformat_or_none(end_date),
                      data |-> get_business_sentiment_over_time(
                                   business_id, period, start_date, end_date)],
                     <<"get_by_id", "get_business_sentiment_over_time">>)

get_business_timeline_with_city_comparison(business_id, metric, period, start_date, end_date) ==
    LET req == [op |-> "get_business_timeline_with_city_comparison",
                business_id |-> business_id, metric |-> metric, period |-> period,
                start_date |-> start_date, end_date |-> end_date]
        business == get_by_id(business_id)
    IN  IF ~validate_period(period)
        THEN Respond(req, HTTP_400_BAD_REQUEST, InvalidPeriod, <<>>)
        ELSE IF ~validate_metric(metric)
        THEN Respond(req, HTTP_400_BAD_REQUEST, InvalidMetric, <<>>)
        ELSE IF ~business_exists(business)
        THEN Respond(req, HTTP_404_NOT_FOUND, BusinessNotFound, <<"get_by_id">>)
        ELSE \E result \in
                 (IF metric = "rating"
                  THEN get_business_and_city_ratings_comparison(
                           business_id, business.city, business.state,
                           period, start_date, end_date)
                  ELSE get_business_and_city_sentiment_comparison(
                           business_id, business.city, business.state,
                           period, start_date, end_date)) :
               Respond(req, HTTP_200_OK,
                       [business_id |-> business_id,
                        business_name |-> business.name,
                        city |-> business.city,
                        state |-> business.state,
                        period |-> period,
                        metric |-> metric,
                        start_date |-> isoformat_or_none(start_date),
                        end_date |-> isoformat_or_none(end_date),
                        business_data |-> result.business_data,
                        city_average |-> result.peer_data],
                       <<"get_by_id",
                         IF metric = "rating"
                         THEN "get_business_and_city_ratings_comparison"
                         ELSE "get_business_and_city_sentiment_comparison">>)

get_business_timeline_with_state_comparison(business_id, metric, period, start_date, end_date) ==
    LET req == [op |-> "get_business_timeline_with_state_comparison",
                business_id |-> business_id, metric |-> metric, period |-> period,
                start_date |-> start_date, end_date |-> end_date]
        business == get_by_id(business_id)
    IN  IF ~validate_period(period)
        THEN Respond(req, HTTP_400_BAD_REQUEST, InvalidPeriod, <<>>)
        ELSE IF ~validate_metric(metric)
        THEN Respond(req, HTTP_400_BAD_REQUEST, InvalidMetric, <<>>)
        ELSE IF ~business_exists(business)
        THEN Respond(req, HTTP_404_NOT_FOUND, BusinessNotFound, <<"get_by_id">>)
        ELSE \E result \in
                 (IF metric = "rating"
                  THEN get_business_and_state_ratings_comparison(
                           business_id, business.state, period, start_date, end_date)
                  ELSE get_business_and_state_sentiment_comparison(
                           business_id, business.state, period, start_date, end_date)) :
               Respond(req, HTTP_200_OK,
                       [business_id |-> business_id,
                        business_name |-> business.name,
                        state |-> business.state,
                        period |-> period,
                        metric |-> metric,
                        start_date |-> isoformat_or_none(start_date),
                        end_date |-> isoformat_or_none(end_date),
                        business_data |-> result.business_data,
                        state_average |-> result.peer_data],
                       <<"get_by_id",
                         IF metric = "rating"
                         THEN "get_business_and_state_ratings_comparison"
                         ELSE "get_business_and_state_sentiment_comparison">>)

get_city_ratings_timeline_Checked(city, state, period, start_date, end_date) ==
    LET req == [op |-> "get_city_ratings_timeline", city |-> city, state |-> state,
                period |-> period, start_date |-> start_date, end_date |-> end_date]
    IN  IF ~validate_period(period)
        THEN Respond(req, HTTP_400_BAD_REQUEST, InvalidPeriod, <<>>)
        ELSE IF \A b \in businesses : ~(b.city = city /\ b.state = state)
        THEN Respond(req, HTTP_404_NOT_FOUND, [detail |-> "City not found"], <<>>)
        ELSE Respond(req, HTTP_200_OK,
                     [city |-> city,
                      state |-> state,
                      period |-> period,
                      metric |-> "rating",
                      start_date |-> isoformat_or_none(start_date),
                      end_date |-> isoformat_or_none(end_date),
                      data |-> get_city_ratings_over_time(
                                   city, state, period, start_date, end_date)],
                     <<"get_city_ratings_over_time">>)

get_city_ratings_timeline(city, state, period, start_date, end_date) ==
    LET req == [op |-> "get_city_ratings_timeline", city |-> city, state |-> state,
                period |-> period, start_date |-> start_date, end_date |-> end_date]
    IN  IF ~validate_period(period)
        THEN Respond(req, HTTP_400_BAD_REQUEST, InvalidPeriod, <<>>)
        ELSE Respond(req, HTTP_200_OK,
                     [city |-> city,
                      state |-> state,
                      period |-> period,
                      metric |-> "rating",
                      start_date |-> isoformat_or_none(start_date),
                      end_date |-> isoformat_or_none(end_date),
                      data |-> get_city_ratings_over_time(
                                   city, state, period, start_date, end_date)],
                     <<"get_city_ratings_over_time">>)

get_state_ratings_timeline(state, period, start_date, end_date) ==
    LET req == [op |-> "get_state_ratings_timeline", state |-> state,
                period |-> period, start_date |-> start_date, end_date |-> end_date]
    IN  IF ~validate_period(period)
        THEN Respond(req, HTTP_400_BAD_REQUEST, InvalidPeriod, <<>>)
        ELSE Respond(req, HTTP_200_OK,
                     [state |-> state,
                      period |-> period,
                      metric |-> "rating",
                      start_date |-> isoformat_or_none(start_date),
                      end_date |-> isoformat_or_none(end_date),
                      data |-> get_state_ratings_over_time(
                                   state, period, start_date, end_date)],
                     <<"get_state_ratings_over_time">>)

(***************************************************************************)
(* The analytics model: its tables and its requests.  The service is       *)
(* called with any period and metric text (the endpoints' own patterns     *)
(* stand in front of it).                                                  *)
(***************************************************************************)
\* the first NumReviews reviews of the pool may be stored
NumReviews == 6

AnalyticsProfiles == [id \in BusinessIds |->
    CASE id = "B1" -> {Business(id, Joe, Phil, PA, 0, 0, 4, 10, bar)}
      [] id = "B2" -> {Business(id, Joey, Phil, PA, 0, 0, 4, 10, bar)}
      [] id = "B3" -> {Business(id, Ito, Pitt, PA, 0, 0, 4, 10, bar),
                       Business(id, Ito, Phil, NJ, 0, 0, 4, 10, bar)}
      [] OTHER -> {Business(id, Pad, Pitt, NJ, 0, 0, 4, 10, bar)}]

Review(id, business_id, date, stars, prob_diff, expected) ==
    [review_id |-> id, business_id |-> business_id, date |-> date, stars |-> stars,
     sentiment_score_prob_diff |-> prob_diff, sentiment_score_expected |-> expected]

\* stars as given; the two sentiment scores in hundredths
ReviewPool ==
    << Review("R1", "B1", <<2023, 1, 10>>, 4, 50, 40),
       Review("R2", "B1", <<2023, 1, 20>>, 5, 80, 90),
       Review("R3", "B2", <<2023, 1, 30>>, 2, -50, -40),
       Review("R4", "B1", <<2023, 2, 1>>, 3, 0, 10),
       Review("R5", "B1", <<2023, 1, 1>>, 1, -80, -90),
       Review("R6", "B3", <<2023, 1, 10>>, 1, -90, -80),
       Review("R7", "B2", <<2022, 12, 31>>, 5, 90, 80),
       Review("R8", "B4", <<2023, 1, 20>>, 3, 10, 0) >>

StorableReviews == {ReviewPool[i] : i \in 1..Min(NumReviews, Len(ReviewPool))}

Periods == {"day", "week", "month", "year", "hour"}
Metrics == {"rating", "sentiment", "stars"}
StartDates == {NoneDate, <<2023, 1, 10>>, <<2023, 2, 1>>}
EndDates == {NoneDate, <<2023, 1, 30>>}

GetBusinessRatingsTimeline ==
    /\ pc = "idle"
    /\ \E id \in BusinessIds, period \in Periods, sd \in StartDates, ed \in EndDates :
          get_business_ratings_timeline(id, period, sd, ed)

GetBusinessSentimentTimeline ==
    /\ pc = "idle"
    /\ \E id \in BusinessIds, period \in Periods, sd \in StartDates, ed \in EndDates :
          get_business_sentiment_timeline(id, period, sd, ed)

GetBusinessTimelineWithCityComparison ==
    /\ pc = "idle"
    /\ \E id \in BusinessIds, metric \in Metrics, period \in Periods,
          sd \in StartDates, ed \in EndDates :
          get_business_timeline_with_city_comparison(id, metric, period, sd, ed)

GetBusinessTimelineWithStateComparison ==
    /\ pc = "idle"
    /\ \E id \in BusinessIds, metric \in Metrics, period \in Periods,
          sd \in StartDates, ed \in EndDates :
          get_business_timeline_with_state_comparison(id, metric, period, sd, ed)

GetCityRatingsTimeline ==
    /\ pc = "idle"
    /\ \E city \in {Phil, Pitt}, state \in {PA, NJ}, period \in Periods,
          sd \in StartDates, ed \in EndDates :
          get_city_ratings_timeline(city, state, period, sd, ed)

GetStateRatingsTimeline ==
    /\ pc = "idle"
    /\ \E state \in {PA, NJ}, period \in Periods, sd \in StartDates, ed \in EndDates :
          get_state_ratings_timeline(state, period, sd, ed)

\* every review references a stored business (the foreign key)
InitAnalytics ==
    /\ businesses \in TablesOver(StorableIds, AnalyticsProfiles)
    /\ reviews \in SUBSET {r \in StorableReviews :
                             \E b \in businesses : b.business_id = r.business_id}
    /\ Idle
    /\ AtRest

NextAnalytics ==
    \/ GetBusinessRatingsTimeline
    \/ GetBusinessSentimentTimeline
    \/ GetBusinessTimelineWithCityComparison
    \/ GetBusinessTimelineWithStateComparison
    \/ GetCityRatingsTimeline
    \/ GetStateRatingsTimeline
    \/ Return

SpecAnalytics == InitAnalytics /\ [][NextAnalytics]_vars

(***************************************************************************)
(* Region enumeration: BusinessRepository.get_states / get_cities_by_state *)
(* and the /states and /cities endpoints.                                  *)
(***************************************************************************)
\* the code points of the characters of the stored states and cities
CodePoint ==
    [c \in {"A", "I", "J", "N", "P", "h", "i", "l", "o", "t"} |->
        CASE c = "A" -> 65 [] c = "I" -> 73 [] c = "J" -> 74 [] c = "N" -> 78
          [] c = "P" -> 80 [] c = "h" -> 104 [] c = "i" -> 105 [] c = "l" -> 108
          [] c = "o" -> 111 [] c = "t" -> 116]

\* a sorts before b
RECURSIVE TextLess(_, _)
TextLess(a, b) ==
    /\ b # <<>>
    /\ \/ a = <<>>
       \/ CodePoint[a[1]] < CodePoint[b[1]]
       \/ a[1] = b[1] /\ TextLess(Tail(a), Tail(b))

\* .distinct().order_by(column): the distinct values, ascending
RECURSIVE order_by_text(_)
order_by_text(texts) ==
    IF texts = {} THEN <<>>
    ELSE LET least == CHOOSE x \in texts : \A y \in texts : x = y \/ TextLess(x, y)
         IN  <<least>> \o order_by_text(texts \ {least})

\* BusinessRepository.get_states
get_states == order_by_text({b.state : b \in businesses})

\* BusinessRepository.get_cities_by_state
get_cities_by_state(state) ==
    order_by_text({b.city : b \in {x \in businesses : x.state = state}})

\* the names business_repository.py defines or imports at module level
business_repository_names ==
    {"List", "Optional", "select", "func", "and_", "or_", "case", "AsyncSession",
     "Business", "BusinessRepositoryInterface", "BusinessRepository"}

\* the names repositories/__init__.py imports from business_repository
repositories_imports ==
    {"get_business_by_id", "get_businesses", "get_businesses_in_viewport",
     "search_businesses", "get_states", "get_cities_by_state"}

\* `from repositories import business_repository` runs the package's
\* __init__, whose from-import raises ImportError on a name the module lacks
repositories_importable == repositories_imports \subseteq business_repository_names

ImportError == [error |-> "ImportError"]
AttributeError == [error |-> "AttributeError"]

\* a call of module attribute `name` of business_repository from locations.py:
\* ends without an answer when the import fails (status 0: the module, and
\* with it the application, does not load), raises AttributeError when the
\* module has no such name, and delivers the result otherwise
locations_call(req, name, result) ==
    IF ~repositories_importable
    THEN Respond(req, 0, ImportError, <<>>)
    ELSE IF name \notin business_repository_names
    THEN Respond(req, 0, AttributeError, <<>>)
    ELSE Respond(req, HTTP_200_OK, result, <<name>>)

\* GET /states
locations_get_states ==
    locations_call([op |-> "locations.get_states"], "get_states", get_states)

\* GET /cities?state=
locations_get_cities(state) ==
    locations_call([op |-> "locations.get_cities", state |-> state],
                   "get_cities_by_state", get_cities_by_state(upper(state)))

LocationProfiles == [id \in BusinessIds |->
    { Business(id, <<"x">>, Phil, PA, 0, 0, 4, 10, <<"f">>),
      Business(id, <<"x">>, Pitt, PA, 0, 0, 4, 10, <<"f">>),
      Business(id, <<"x">>, Phil, NJ, 0, 0, 4, 10, <<"f">>),
      Business(id, <<"x">>, Ito, NJ, 0, 0, 4, 10, <<"f">>) }]

\* the repository method, called on a BusinessRepository
GetStates ==
    /\ pc = "idle"
    /\ Respond([op |-> "get_states"], HTTP_200_OK, get_states, <<"get_states">>)

GetCitiesByState ==
    /\ pc = "idle"
    /\ \E state \in {PA, NJ, pa} :
          Respond([op |-> "get_cities_by_state", state |-> state], HTTP_200_OK,
                  get_cities_by_state(state), <<"get_cities_by_state">>)

LocationsGetStates ==
    /\ pc = "idle"
    /\ locations_get_states

LocationsGetCities ==
    /\ pc = "idle"
    /\ \E state \in {PA, NJ, pa} : locations_get_cities(state)

InitLocations ==
    /\ businesses \in TablesOver(StorableIds, LocationProfiles)
    /\ reviews = {}
    /\ Idle
    /\ AtRest

NextLocations ==
    \/ GetStates
    \/ GetCitiesByState
    \/ LocationsGetStates
    \/ LocationsGetCities
    \/ Return

SpecLocations == InitLocations /\ [][NextLocations]_vars

(***************************************************************************)
(* The whole API: every operation of the services and endpoints above, on  *)
(* one store of businesses and their reviews.  Each request runs in a      *)
(* session of get_async_session, which yields the session, rolls back on   *)
(* an exception and closes it in every case; it never commits.             *)
(***************************************************************************)
InitApi ==
    /\ businesses \in TablesOver(StorableIds, AnalyticsProfiles)
    /\ reviews \in SUBSET {r \in StorableReviews :
                             \E b \in businesses : b.business_id = r.business_id}
    /\ Idle
    /\ AtRest

NextApi ==
    \/ GetBusinessById
    \/ GetBusinesses
    \/ GetBusinessesInViewport
    \/ SearchBusinesses
    \/ GetBusinessRatingsTimeline
    \/ GetBusinessSentimentTimeline
    \/ GetBusinessTimelineWithCityComparison
    \/ GetBusinessTimelineWithStateComparison
    \/ GetCityRatingsTimeline
    \/ GetStateRatingsTimeline
    \/ GetStates
    \/ GetCitiesByState
    \/ LocationsGetStates
    \/ LocationsGetCities
    \/ Return

SpecApi == InitApi /\ [][NextApi]_vars

(***************************************************************************)
(* The seeding script (scripts/seed_database.py).  main loads three lists  *)
(* of records and runs seed_businesses, seed_photos and seed_reviews on    *)
(* one session.  The session has autoflush off: an object given to         *)
(* session.add is pending until the next commit, and a SELECT reads the    *)
(* tables only, so it does not see pending objects.  A commit inserts the  *)
(* pending objects; the database refuses a duplicate primary key or a      *)
(* missing parent row with IntegrityError and the transaction is rolled    *)
(* back.                                                                   *)
(***************************************************************************)
\* each input list holds at most MaxData records
MaxData == 2

\* inserted_count % 100 == 0 / % 500 == 0: commit in batches
BUSINESS_BATCH == 100
PHOTO_BATCH == 500
REVIEW_BATCH == 500

NoException == [error |-> "none"]
IntegrityError == [error |-> "IntegrityError"]
PendingRollbackError == [error |-> "PendingRollbackError"]

\* the records a businesses file may hold: two of them share an id
BusinessData ==
    { Business("B1", Joe, Phil, PA, 0, 0, 4, 10, bar),
      Business("B1", Joey, Pitt, PA, 1, 1, 5, 3, bar),
      Business("B2", Ito, Phil, NJ, 2, 2, 4, 20, bar) }

\* the records a photos file may hold: three share an id, two name business
\* B3, which no businesses file holds
PhotoData ==
    { [photo_id |-> "P1", business_id |-> "B1", label |-> "food"],
      [photo_id |-> "P1", business_id |-> "B2", label |-> "menu"],
      [photo_id |-> "P1", business_id |-> "B3", label |-> "food"],
      [photo_id |-> "P2", business_id |-> "B3", label |-> "food"] }

\* the records a reviews file may hold.  The date text is its list of
\* whitespace-separated parts: a date alone, a date and a time of day, or a
\* date that is none (30 February)
ReviewData ==
    { Review("R1", "B1", << <<2023, 1, 10>>, "23:10:31" >>, 4, 50, 40),
      Review("R1", "B2", << <<2023, 1, 20>> >>, 5, 80, 90),
      Review("R1", "B3", << <<2023, 1, 10>> >>, 1, -90, -80),
      Review("R2", "B3", << <<2023, 1, 10>> >>, 1, -90, -80),
      Review("R3", "B1", << <<2023, 2, 30>> >>, 3, 0, 10) }

\* the lists of at most MaxData records of a pool
ListsOver(pool) == UNION { [1..n -> pool] : n \in 0..MaxData }

\* datetime.strptime(text, '%Y-%m-%d'): the text names a day of the calendar
strptime_ok(d) == d \in Seq(Int) /\ Len(d) = 3 /\ civil_from_days(days_from_civil(d)) = d

\* if ' ' in date_str: the part before the first blank, else the whole text
date_part(date_str) == IF date_str = <<>> THEN <<>> ELSE date_str[1]

\* the loop state of a seed function: the table as the database holds it, the
\* objects added to the session and not yet committed, every object given to
\* session.add, the counters, and the exception that ended the function
SeedStart(table) ==
    [stored |-> table, pending |-> <<>>, added |-> <<>>, inserted |-> 0,
     skipped |-> 0, orphaned |-> 0, errors |-> 0, invalid |-> FALSE,
     raised |-> NoException]

\* await session.commit() for the table with primary key `key`; parents is
\* the set of business ids the table's rows may reference (the stored ones
\* for photos and reviews, any id for the businesses themselves)
commit(acc, key, parents) ==
    LET pending == acc.pending
        refused ==
          \/ \E i, j \in 1..Len(pending) : i < j /\ pending[i][key] = pending[j][key]
          \/ \E i \in 1..Len(pending) : \E row \in acc.stored : row[key] = pending[i][key]
          \/ \E i \in 1..Len(pending) : pending[i].business_id \notin parents
    IN  IF acc.invalid
        THEN [acc EXCEPT !.raised = PendingRollbackError]
        ELSE IF refused
        THEN [acc EXCEPT !.pending = <<>>, !.invalid = TRUE, !.raised = IntegrityError]
        ELSE [acc EXCEPT !.stored = @ \cup {pending[i] : i \in 1..Len(pending)},
                         !.pending = <<>>]

\* session.add(obj); inserted_count += 1; commit when the batch is full
add(acc, obj, key, parents, batch) ==
    LET a == [acc EXCEPT !.pending = Append(@, obj), !.added = Append(@, obj),
                         !.inserted = @ + 1]
    IN  IF a.inserted % batch = 0 THEN commit(a, key, parents) ELSE a

\* select(...).where(id == value) finds a row: it reads the table, not the
\* pending objects of the session
existing(table, key, value) == \E row \in table : row[key] = value

business_exists_for_Always(business_id) == TRUE

\* select(Business).where(Business.business_id == business_id) finds a row
business_exists_for(business_id) == existing(businesses, "business_id", business_id)

\* the loop of seed_businesses from record i on
RECURSIVE seed_businesses_loop(_, _, _)
seed_businesses_loop(businesses_data, i, acc) ==
    IF i > Len(businesses_data) \/ acc.raised # NoException THEN acc
    ELSE IF existing(acc.stored, "business_id", businesses_data[i].business_id)
    THEN seed_businesses_loop(businesses_data, i + 1, [acc EXCEPT !.skipped = @ + 1])
    ELSE seed_businesses_loop(businesses_data, i + 1,
             add(acc, businesses_data[i], "business_id", BusinessIds, BUSINESS_BATCH))

\* seed_businesses: the loop and the final commit
seed_businesses(businesses_data) ==
    LET acc == seed_businesses_loop(businesses_data, 1, SeedStart(businesses))
    IN  IF acc.raised # NoException THEN acc
        ELSE commit(acc, "business_id", BusinessIds)

\* the loop of seed_photos from record i on
RECURSIVE seed_photos_loop(_, _, _)
seed_photos_loop(photos_data, i, acc) ==
    IF i > Len(photos_data) \/ acc.raised # NoException THEN acc
    ELSE IF existing(acc.stored, "photo_id", photos_data[i].photo_id)
    THEN seed_photos_loop(photos_data, i + 1, [acc EXCEPT !.skipped = @ + 1])
    ELSE IF ~business_exists_for(photos_data[i].business_id)
    THEN seed_photos_loop(photos_data, i + 1, [acc EXCEPT !.orphaned = @ + 1])
    ELSE seed_photos_loop(photos_data, i + 1,
             add(acc, photos_data[i], "photo_id",
                 {b.business_id : b \in businesses}, PHOTO_BATCH))

\* seed_photos: the loop and the final commit
seed_photos(photos_data) ==
    LET acc == seed_photos_loop(photos_data, 1, SeedStart(photos))
    IN  IF acc.raised # NoException THEN acc
        ELSE commit(acc, "photo_id", {b.business_id : b \in businesses})

\* the loop of seed_reviews from record i on.  The date is parsed and the
\* review added inside try: a date that does not parse, and an exception of
\* the batch commit, are counted in error_count and the loop goes on; the
\* next statement on a session whose flush failed raises PendingRollbackError
RECURSIVE seed_reviews_loop(_, _, _)
seed_reviews_loop(reviews_data, i, acc) ==
    IF i > Len(reviews_data) \/ acc.raised # NoException THEN acc
    ELSE IF acc.invalid
    THEN [acc EXCEPT !.raised = PendingRollbackError]
    ELSE IF existing(acc.stored, "review_id", reviews_data[i].review_id)
    THEN seed_reviews_loop(reviews_data, i + 1, [acc EXCEPT !.skipped = @ + 1])
    ELSE IF ~business_exists_for(reviews_data[i].business_id)
    THEN seed_reviews_loop(reviews_data, i + 1, [acc EXCEPT !.orphaned = @ + 1])
    ELSE IF ~strptime_ok(date_part(reviews_data[i].date))
    THEN seed_reviews_loop(reviews_data, i + 1, [acc EXCEPT !.errors = @ + 1])
    ELSE LET review == [reviews_data[i] EXCEPT !.date = date_part(@)]
             a == add(acc, review, "review_id",
                      {b.business_id : b \in businesses}, REVIEW_BATCH)
         IN  seed_reviews_loop(reviews_data, i + 1,
                 IF a.raised # NoException
                 THEN [a EXCEPT !.raised = NoException, !.errors = @ + 1]
                 ELSE a)

\* seed_reviews: the loop and the final commit
seed_reviews(reviews_data) ==
    LET acc == seed_reviews_loop(reviews_data, 1, SeedStart(reviews))
    IN  IF acc.raised # NoException THEN acc
        ELSE commit(acc, "review_id", {b.business_id : b \in businesses})

\* what a seed function leaves in the script's state: its counters, the
\* objects it gave to session.add, and the exception it raised, if any
Outcome(acc) ==
    [inserted |-> acc.inserted, skipped |-> acc.skipped, orphaned |-> acc.orphaned,
     errors |-> acc.errors, added |-> acc.added, raised |-> acc.raised]

\* the phase after a seed function: an exception ends main (sys.exit(1))
PhaseAfter(acc, next) == IF acc.raised # NoException THEN "failed" ELSE next

\* business_count = await seed_businesses(session, businesses_data)
SeedBusinesses ==
    /\ seed.phase = "businesses"
    /\ LET acc == seed_businesses(seed.data.businesses)
       IN  /\ businesses' = acc.stored
           /\ seed' = [seed EXCEPT !.phase = PhaseAfter(acc, "photos"),
                                   !.businesses = Outcome(acc)]
    /\ UNCHANGED <<reviews, photos, pc, request, response, calls, session, repository>>

\* photo_count = await seed_photos(session, photos_data)
SeedPhotos ==
    /\ seed.phase = "photos"
    /\ LET acc == seed_photos(seed.data.photos)
       IN  /\ photos' = acc.stored
           /\ seed' = [seed EXCEPT !.phase = PhaseAfter(acc, "reviews"),
                                   !.photos = Outcome(acc)]
    /\ UNCHANGED <<businesses, reviews, pc, request, response, calls, session, repository>>

\* review_count = await seed_reviews(session, reviews_data), then verify_data
\* (which only counts rows) and the success report
SeedReviews ==
    /\ seed.phase = "reviews"
    /\ LET acc == seed_reviews(seed.data.reviews)
       IN  /\ reviews' = acc.stored
           /\ seed' = [seed EXCEPT !.phase = PhaseAfter(acc, "done"),
                                   !.reviews = Outcome(acc)]
    /\ UNCHANGED <<businesses, photos, pc, request, response, calls, session, repository>>

\* the script is run again over the same files on the store as it now is
RunAgain ==
    /\ seed.phase \in {"done", "failed"}
    /\ seed.run = 1
    /\ seed' = [seed EXCEPT !.phase = "businesses", !.run = 2,
                            !.earlier = seed.phase,
                            !.businesses = Outcome(SeedStart({})),
                            !.photos = Outcome(SeedStart({})),
                            !.reviews = Outcome(SeedStart({})),
                            !.before = [businesses |-> businesses, photos |-> photos,
                                        reviews |-> reviews]]
    /\ UNCHANGED <<businesses, reviews, photos, pc, request, response, calls,
                   session, repository>>

\* main has loaded the three files and opened its session on an empty store
InitSeed ==
    /\ businesses = {}
    /\ reviews = {}
    /\ photos = {}
    /\ Idle
    /\ session = NoSession
    /\ repository = NoRepository
    /\ \E bd \in ListsOver(BusinessData), pd \in ListsOver(PhotoData),
          rd \in ListsOver(ReviewData) :
          seed = [phase |-> "businesses", run |-> 1, earlier |-> "none",
                  data |-> [businesses |-> bd, photos |-> pd, reviews |-> rd],
                  businesses |-> Outcome(SeedStart({})),
                  photos |-> Outcome(SeedStart({})),
                  reviews |-> Outcome(SeedStart({})),
                  before |-> [businesses |-> {}, photos |-> {}, reviews |-> {}]]

NextSeed ==
    \/ SeedBusinesses
    \/ SeedPhotos
    \/ SeedReviews
    \/ RunAgain

SpecSeed == InitSeed /\ [][NextSeed]_vars

(***************************************************************************)
(* JSONRepository (repositories/json_repository.py): a file of records,    *)
(* read once into self._data, and the four reading operations.  A file is  *)
(* missing, a JSON array of records, or a text of lines; a line is a       *)
(* record, blank, or not valid JSON.                                       *)
(***************************************************************************)
\* a file has at most MaxLines lines, or an array of at most MaxLines records
MaxLines == 3

BlankLine == [line |-> "blank"]
BadLine == [line |-> "not json"]
JsonRecords == { [photo_id |-> "P1", business_id |-> "B1"],
                 [photo_id |-> "P2", business_id |-> "B1"] }

MissingFile == [kind |-> "missing"]
Files ==
    {MissingFile}
    \cup { [kind |-> "array", records |-> recs] :
             recs \in UNION { [1..n -> JsonRecords] : n \in 0..MaxLines } }
    \cup { [kind |-> "lines", lines |-> ls] :
             ls \in UNION { [1..n -> JsonRecords \cup {BlankLine, BadLine}] :
                              n \in 0..MaxLines } }

\* self._data: None, a list, or (json.load of a single object) a dict
NoneData == [kind |-> "None"]
ListData(items) == [kind |-> "list", items |-> items]
DictData(value) == [kind |-> "dict", value |-> value]

FileNotFoundError == [error |-> "FileNotFoundError"]
JSONDecodeError == [error |-> "JSONDecodeError"]
Returned(value) == [returned |-> value]
Raised(exception) == [raised |-> exception]

\* the lines of a text that are not blank after strip()
NonBlank(lines) == SelectSeq(lines, LAMBDA l : l # BlankLine)

\* json.load(f) reads the whole file as one JSON document: an array gives
\* its list, a text whose only non-blank line is one record gives that
\* record, any other text (none or several documents, or a bad line) raises
\* JSONDecodeError
json_load(file) ==
    IF file.kind = "array" THEN Returned(ListData(file.records))
    ELSE IF Len(NonBlank(file.lines)) = 1 /\ NonBlank(file.lines)[1] \in JsonRecords
    THEN Returned(DictData(NonBlank(file.lines)[1]))
    ELSE Raised(JSONDecodeError)

\* self._data = []; for line in f: ... self._data.append(json.loads(line)),
\* from line i on: the cache as the loop leaves it, and the exception that
\* ended it, if any
RECURSIVE load_lines(_, _, _)
load_lines(lines, i, data) ==
    IF i > Len(lines) THEN [data |-> data, raised |-> NoException]
    ELSE IF lines[i] = BlankLine THEN load_lines(lines, i + 1, data)
    ELSE IF lines[i] = BadLine THEN [data |-> data, raised |-> JSONDecodeError]
    ELSE load_lines(lines, i + 1, Append(data, lines[i]))

\* JSONRepository._load_data: the cache after the call and what the call
\* returned or raised
load_data ==
    IF repository.data # NoneData
    THEN [data |-> repository.data, result |-> Returned(repository.data)]
    ELSE IF repository.file = MissingFile
    THEN [data |-> NoneData, result |-> Raised(FileNotFoundError)]
    ELSE IF json_load(repository.file) # Raised(JSONDecodeError)
    THEN [data |-> json_load(repository.file).returned,
          result |-> json_load(repository.file)]
    ELSE LET loop == load_lines(repository.file.lines, 1, <<>>)
         IN  IF loop.raised = NoException
             THEN [data |-> ListData(loop.data), result |-> Returned(ListData(loop.data))]
             ELSE [data |-> ListData(loop.data), result |-> Raised(loop.raised)]

\* a JSONRepository has been constructed
Constructed == "data" \in DOMAIN repository

\* an operation of the repository: _load_data, then `value` of the loaded data
Call(op, loaded, value) ==
    /\ repository' = [repository EXCEPT
                         !.data = loaded.data,
                         !.op = op,
                         !.result = IF "raised" \in DOMAIN loaded.result
                                    THEN loaded.result ELSE value]
    /\ UNCHANGED <<businesses, reviews, photos, pc, request, response, calls,
                   session, seed>>

\* get_all: return self._load_data()
GetAll ==
    /\ Constructed
    /\ LET loaded == load_data
       IN  Call("get_all", loaded, loaded.result)

\* get_by_id: the first record whose id_field is id_value, or None; iterating
\* a dict yields its keys, which have no get
GetById ==
    /\ Constructed
    /\ \E id_value \in {"P1", "P2", "P3"} :
        LET loaded == load_data
            data == loaded.data
            hits == IF data.kind = "list"
                    THEN SelectSeq(data.items, LAMBDA r : r.photo_id = id_value)
                    ELSE <<>>
        IN  Call("get_by_id", loaded,
                 IF data.kind = "dict" THEN Raised(AttributeError)
                 ELSE IF hits = <<>> THEN Returned(NoRow)
                 ELSE Returned(hits[1]))

\* filter_by(business_id=...): the records whose field has the value
FilterBy ==
    /\ Constructed
    /\ \E value \in {"B1", "B2"} :
        LET loaded == load_data
            data == loaded.data
        IN  Call("filter_by", loaded,
                 IF data.kind = "dict" THEN Raised(AttributeError)
                 ELSE IF data.kind = "list"
                 THEN Returned(SelectSeq(data.items, LAMBDA r : r.business_id = value))
                 ELSE Returned(<<>>))

\* count: len(self._load_data())
Count ==
    /\ Constructed
    /\ LET loaded == load_data
           data == loaded.data
       IN  Call("count", loaded,
                IF data.kind = "dict" THEN Returned(Cardinality(DOMAIN data.value))
                ELSE IF data.kind = "list" THEN Returned(Len(data.items))
                ELSE Returned(0))

\* the file that was missing is put in place
CreateFile ==
    /\ Constructed
    /\ repository.file = MissingFile
    /\ \E file \in Files \ {MissingFile} :
          repository' = [repository EXCEPT !.file = file]
    /\ UNCHANGED <<businesses, reviews, photos, pc, request, response, calls,
                   session, seed>>

\* JSONRepository(json_file_path): self._data = None
InitJson ==
    /\ businesses = {}
    /\ reviews = {}
    /\ photos = {}
    /\ Idle
    /\ session = NoSession
    /\ seed = NoSeed
    /\ \E file \in Files :
          repository = [file |-> file, data |-> NoneData, op |-> "none",
                        result |-> Returned(NoneData)]

NextJson ==
    \/ GetAll
    \/ GetById
    \/ FilterBy
    \/ Count
    \/ CreateFile

SpecJson == InitJson /\ [][NextJson]_vars

(***************************************************************************)
(* The request-scoped session (database/database.py, get_async_session).   *)
(* FastAPI runs the generator up to its yield before the handler, throws   *)
(* an exception of the handler into it at the yield, and resumes it when   *)
(* the handler has returned.  An answer with a status other than 200 is    *)
(* the exception the service raised; status 0 with an error is a query     *)
(* that failed in the database.                                            *)
(***************************************************************************)
OperationalError == [error |-> "OperationalError"]

\* the exception the handler raised, if any
handler_exception == IF response.status = HTTP_200_OK THEN NoException ELSE response.body

\* async with async_session_maker() as session: ... yield session
OpenedSession ==
    [state |-> "open", finished |-> FALSE, rolled_back |-> FALSE, raised |-> NoException]

\* the session is closed only when the handler raised nothing
get_async_session_CloseOnSuccess(exception) ==
    IF exception # NoException
    THEN [session EXCEPT !.finished = TRUE, !.rolled_back = TRUE, !.raised = exception]
    ELSE [session EXCEPT !.finished = TRUE, !.state = "closed"]

\* get_async_session from its yield on: except Exception: rollback, log,
\* raise; finally: close
get_async_session(exception) ==
    LET after_except ==
          IF exception # NoException
          THEN [session EXCEPT !.rolled_back = TRUE, !.raised = exception]
          ELSE session
    IN  [after_except EXCEPT !.finished = TRUE, !.state = "closed"]

\* Depends(get_async_session): the session of the request is opened
Depends ==
    /\ pc = "idle"
    /\ session = NoSession
    /\ session' = OpenedSession
    /\ UNCHANGED <<businesses, reviews, photos, pc, request, response, calls,
                   seed, repository>>

\* the handlers, run with the session of the request
HandleGetBusinessById ==
    /\ session.state = "open"
    /\ GetBusinessById

HandleGetBusinesses ==
    /\ session.state = "open"
    /\ GetBusinesses

HandleGetBusinessesInViewport ==
    /\ session.state = "open"
    /\ GetBusinessesInViewport

\* a query of the handler fails in the database; the exception leaves the
\* repository, the service and the endpoint as it is
QueryFails ==
    /\ session.state = "open"
    /\ \E id \in BusinessIds :
          Respond([op |-> "get_business_by_id", business_id |-> id], 0,
                  OperationalError, <<"get_by_id">>)

\* the handler has ended: the generator is resumed, or thrown into, and runs
\* to its end
ExitSession ==
    /\ pc = "done"
    /\ session.state = "open"
    /\ ~session.finished
    /\ session' = get_async_session(handler_exception)
    /\ UNCHANGED <<businesses, reviews, photos, pc, request, response, calls,
                   seed, repository>>

\* the request is over; the next one gets a session of its own
EndRequest ==
    /\ pc = "done"
    /\ session.state # "none"
    /\ session.finished
    /\ pc' = "idle"
    /\ request' = [op |-> "none"]
    /\ response' = [status |-> 0, body |-> <<>>]
    /\ calls' = <<>>
    /\ session' = NoSession
    /\ UNCHANGED <<businesses, reviews, photos, seed, repository>>

NextSession ==
    \/ Depends
    \/ HandleGetBusinessById
    \/ HandleGetBusinesses
    \/ HandleGetBusinessesInViewport
    \/ QueryFails
    \/ ExitSession
    \/ EndRequest

SpecSession == Init /\ [][NextSession]_vars

(***************************************************************************)
(* The wiring of the analytics endpoints: what the interfaces declare      *)
(* abstract, what the concrete classes define, what the dependencies       *)
(* module provides and what api/endpoints/analytics.py imports from it.    *)
(* A class that leaves an abstract method of its ABC undefined cannot be   *)
(* instantiated (TypeError); importing a name a module does not define     *)
(* raises ImportError.                                                     *)
(***************************************************************************)
\* the @abstractmethod names of ReviewRepositoryInterface
ReviewRepositoryInterface ==
    {"get_by_id", "get_by_business",
     "get_business_ratings_over_time", "get_business_sentiment_over_time",
     "get_city_ratings_over_time", "get_state_ratings_over_time",
     "get_city_sentiment_over_time", "get_state_sentiment_over_time",
     "get_category_ratings_over_time", "get_category_sentiment_over_time"}

\* the methods class ReviewRepository defines
ReviewRepository ==
    {"__init__", "_get_date_trunc_expression", "get_by_id", "get_by_business",
     "get_business_ratings_over_time", "get_business_sentiment_over_time",
     "get_city_ratings_over_time", "get_state_ratings_over_time",
     "get_city_sentiment_over_time", "get_state_sentiment_over_time",
     "get_business_and_city_ratings_comparison",
     "get_business_and_state_ratings_comparison",
     "get_business_and_city_sentiment_comparison",
     "get_business_and_state_sentiment_comparison"}

\* the @abstractmethod names of AnalyticsServiceInterface
AnalyticsServiceInterface ==
    {"get_business_ratings_timeline", "get_business_sentiment_timeline",
     "get_business_timeline_with_city_comparison",
     "get_business_timeline_with_state_comparison",
     "get_city_ratings_timeline", "get_state_ratings_timeline",
     "get_category_ratings_timeline", "get_category_sentiment_timeline"}

\* the methods class AnalyticsService defines
AnalyticsService ==
    {"__init__", "_validate_period", "_validate_metric",
     "get_business_ratings_timeline", "get_business_sentiment_timeline",
     "get_business_timeline_with_city_comparison",
     "get_business_timeline_with_state_comparison",
     "get_city_ratings_timeline", "get_state_ratings_timeline"}

\* the @abstractmethod names of BusinessServiceInterface and the methods
\* class BusinessService defines
BusinessServiceInterface ==
    {"get_business_by_id", "get_businesses", "get_businesses_in_viewport",
     "search_businesses"}
BusinessService ==
    {"__init__", "get_business_by_id", "get_businesses",
     "get_businesses_in_viewport", "search_businesses"}

\* the names module dependencies binds: its imports and its functions
dependencies ==
    {"Depends", "AsyncSession", "get_async_session", "UnitOfWork",
     "BusinessRepository", "BusinessRepositoryInterface", "BusinessService",
     "BusinessServiceInterface",
     "get_business_repository", "get_unit_of_work", "get_business_service"}

TypeError == [error |-> "TypeError"]

\* class(...): TypeError when an abstract method of the interface is left
\* undefined
instantiate(req, interface, class) ==
    IF interface \subseteq class
    THEN Respond(req, HTTP_200_OK, <<>>, <<>>)
    ELSE Respond(req, 0, TypeError, <<>>)

\* from dependencies import <name>
import_from_dependencies(req, name) ==
    IF name \in dependencies
    THEN Respond(req, HTTP_200_OK, <<>>, <<>>)
    ELSE Respond(req, 0, ImportError, <<>>)

\* server.py: from api.endpoints.analytics import router, which runs
\* `from dependencies import get_analytics_service`
ImportAnalyticsEndpoints ==
    /\ pc = "idle"
    /\ import_from_dependencies([op |-> "import api.endpoints.analytics"],
                                "get_analytics_service")

\* server.py: from api.endpoints.businesses import router, which runs
\* `from dependencies import get_business_service`
ImportBusinessEndpoints ==
    /\ pc = "idle"
    /\ import_from_dependencies([op |-> "import api.endpoints.businesses"],
                                "get_business_service")

\* ReviewRepository(db)
InstantiateReviewRepository ==
    /\ pc = "idle"
    /\ instantiate([op |-> "ReviewRepository(db)"], ReviewRepositoryInterface,
                   ReviewRepository)

\* AnalyticsService(review_repository, business_repository)
InstantiateAnalyticsService ==
    /\ pc = "idle"
    /\ instantiate([op |-> "AnalyticsService(...)"], AnalyticsServiceInterface,
                   AnalyticsService)

\* BusinessService(business_repository)
InstantiateBusinessService ==
    /\ pc = "idle"
    /\ instantiate([op |-> "BusinessService(...)"], BusinessServiceInterface,
                   BusinessService)

NextWiring ==
    \/ ImportAnalyticsEndpoints
    \/ ImportBusinessEndpoints
    \/ InstantiateReviewRepository
    \/ InstantiateAnalyticsService
    \/ InstantiateBusinessService
    \/ Return

SpecWiring == Init /\ [][NextWiring]_vars

(***************************************************************************)
(* Claims about lookup, listing and viewport (checked under Spec).         *)
(***************************************************************************)
Answered(op) == pc = "done" /\ request.op = op

\* the elements of a sequence
Range(seq) == {seq[i] : i \in 1..Len(seq)}

\* every arrangement of a set of rows by stars descending, then review_count
\* descending: no row stands before a row that has more stars, or as many
\* stars and more reviews
ArrangedByStars(rows) ==
    { L \in [1..Cardinality(rows) -> rows] :
        /\ \A i, j \in DOMAIN L : i # j => L[i] # L[j]
        /\ \A i, j \in DOMAIN L :
              i < j => ~( \/ L[j].stars > L[i].stars
                          \/ L[j].stars = L[i].stars
                             /\ L[j].review_count > L[i].review_count ) }

\* positions skip .. skip+limit-1 (counted from 0) of a list
Positions(L, skip, limit) ==
    [i \in 1..(IF Len(L) > skip THEN Min(limit, Len(L) - skip) ELSE 0) |-> L[skip + i]]

InViewport(b, r) ==
    /\ r.south <= b.latitude /\ b.latitude <= r.north
    /\ r.west <= b.longitude /\ b.longitude <= r.east

\* C6: every business a viewport query returns is stored and lies within the
\* bounds, no business is returned twice, and the filter drops no business
\* within the bounds, a business exactly on a bound included: the result
\* holds min(limit, number of businesses within the bounds) rows.
C6_ViewportInclusive ==
    Answered("get_businesses_in_viewport") /\ response.status = HTTP_200_OK =>
        /\ \A i \in DOMAIN response.body :
              /\ response.body[i] \in businesses
              /\ InViewport(response.body[i], request)
        /\ \A i, j \in DOMAIN response.body : i # j => response.body[i] # response.body[j]
        /\ Len(response.body) =
              Min(request.limit, Cardinality({b \in businesses : InViewport(b, request)}))

\* a returned business lies exactly on the southern and on the eastern bound
C6_Witness ==
    /\ Answered("get_businesses_in_viewport")
    /\ response.status = HTTP_200_OK
    /\ \E i \in DOMAIN response.body :
          /\ response.body[i].latitude = request.south
          /\ response.body[i].longitude = request.east

\* C7: a viewport request is answered 400 without any repository call exactly
\* when south < north and west < east do not both hold (equal bounds
\* included); otherwise it runs the viewport query and is not rejected.
C7_ViewportValidation ==
    Answered("get_businesses_in_viewport") =>
        IF request.south < request.north /\ request.west < request.east
        THEN response.status = HTTP_200_OK /\ calls = <<"get_in_viewport">>
        ELSE response.status = HTTP_400_BAD_REQUEST /\ calls = <<>> /\ response.body = <<>>

\* a request with south < north and west = east was rejected
C7_Witness ==
    /\ Answered("get_businesses_in_viewport")
    /\ request.south < request.north
    /\ request.west = request.east
    /\ response.status = HTTP_400_BAD_REQUEST

\* C9: get_business_by_id answers 200 with the one stored business of that id
\* when there is one, and 404 with no business otherwise.
C9_LookupExact ==
    Answered("get_business_by_id") =>
        IF \E b \in businesses : b.business_id = request.business_id
        THEN /\ response.status = HTTP_200_OK
             /\ Len(response.body) = 1
             /\ response.body[1] \in businesses
             /\ response.body[1].business_id = request.business_id
        ELSE /\ response.status = HTTP_404_NOT_FOUND
             /\ response.body = <<>>

\* a lookup of an id that is not stored, beside stored businesses, answered 404
C9_Witness ==
    /\ Answered("get_business_by_id")
    /\ businesses # {}
    /\ response.status = HTTP_404_NOT_FOUND

\* C10: the listing is positions skip .. skip+limit-1 of an arrangement, by
\* stars descending then review_count descending, of all businesses whose
\* state is the upper-cased state argument (when given) and whose city is the
\* city argument as given (when given).
C10_ListingSlice ==
    Answered("get_businesses") =>
        /\ response.status = HTTP_200_OK
        /\ \E L \in ArrangedByStars(
                     {b \in businesses :
                        /\ request.state # NoneStr => b.state = upper(request.state)
                        /\ request.city # NoneStr => b.city = request.city}) :
              response.body = Positions(L, request.skip, request.limit)

\* a lower-case state argument with a city and skip > 0 found a business
C10_Witness ==
    /\ Answered("get_businesses")
    /\ request.state = pa
    /\ request.city = Phil
    /\ request.skip > 0
    /\ response.body # <<>>
    /\ \E b \in businesses : b.state = pa

(***************************************************************************)
(* Claims about the search (checked under SpecSearch).                     *)
(***************************************************************************)
Max(a, b) == IF a >= b THEN a ELSE b

\* t occurs in s as a run of consecutive characters
Contains(s, t) ==
    \E i \in 0..(Len(s) - Len(t)) : SubSeq(s, i + 1, i + Len(t)) = t

ContainsNoCase(s, t) == Contains(lower(s), lower(t))

\* the result is a page of the rows of M: only rows of M, and as many as M
\* has left after skip, up to limit
PageOf(M) ==
    /\ Range(response.body) \subseteq M
    /\ Len(response.body) = Min(request.limit, Max(0, Cardinality(M) - request.skip))

\* the score as the claim states it: exact bonus, weighted similarities, and a
\* bonus for the first field that contains q
StatedScore(b, q) ==
    LET exact == IF lower(b.name) = q THEN 100
                 ELSE IF lower(b.city) = q THEN 90
                 ELSE IF lower(b.state) = q THEN 85 ELSE 0
        substring == IF ContainsNoCase(b.name, q) THEN 20
                     ELSE IF ContainsNoCase(b.city, q) THEN 15
                     ELSE IF ContainsNoCase(b.categories, q) THEN 10 ELSE 0
        sn == similarity(b.name, q)
        sc == similarity(b.city, q)
        sk == similarity(b.categories, q)
    IN  [num |-> (exact + substring) * sn.den * sc.den * sk.den
                 + 50 * sn.num * sc.den * sk.den
                 + 40 * sc.num * sn.den * sk.den
                 + 30 * sk.num * sn.den * sc.den,
         den |-> sn.den * sc.den * sk.den]

\* C3: the relevance score of every business for the cleaned query is the
\* exact bonus (100 name, else 90 city, else 85 state) plus 50, 40 and 30
\* times the similarity of name, city and categories plus the bonus of the
\* first of name (20), city (15), categories (10) that contains the query;
\* and the score removes no matching business from the result.
C3_StatedScore ==
    Answered("search_businesses") =>
        /\ \A b \in businesses :
              FracEqual(relevance_score(b, query_clean(request.query)),
                        StatedScore(b, query_clean(request.query)))
        /\ PageOf(search_matches(request.query))

\* a field contains the term without regard to case, or is similar to it
StatedTermMatch(b, t) ==
    \E f \in {b.name, b.city, b.state, b.categories} :
        ContainsNoCase(f, t) \/ similar(f, t)

\* C4 as stated: a business satisfies a single term exactly when one of name,
\* city, state, categories contains the term without regard to case or has a
\* trigram similarity to it above 0.3.
C4_StatedTermMatch ==
    Answered("search_businesses") /\ Len(split(query_clean(request.query))) = 1 =>
        PageOf({b \in businesses :
                  StatedTermMatch(b, split(query_clean(request.query))[1])})

\* the term has none of the LIKE wildcards
IsPlain(t) == \A i \in 1..Len(t) : t[i] \notin {"%", "_"}

PatternMatch(f, t) ==
    IF IsPlain(t) THEN ContainsNoCase(f, t) ELSE ilike(f, <<"%">> \o t \o <<"%">>)

AmendedTermMatch(b, t) ==
    \/ \E f \in {b.name, b.city, b.state, b.categories} : PatternMatch(f, t)
    \/ \E f \in {b.name, b.city, b.categories} : similar(f, t)

\* C4 (amended): a business satisfies a single term exactly when one of name,
\* city, state, categories matches the case-insensitive LIKE pattern %term%
\* (for a term without the LIKE wildcards % and _ : contains the term without
\* regard to case), or one of name, city, categories has a trigram similarity
\* to the term above 0.3.  The state has no similarity test.
C4_AmendedTermMatch ==
    Answered("search_businesses") /\ Len(split(query_clean(request.query))) = 1 =>
        PageOf({b \in businesses :
                  AmendedTermMatch(b, split(query_clean(request.query))[1])})

\* a stored business whose state is similar to the term, and which matches in
\* no other way, is left out of a result that had room for it
C4_Witness ==
    /\ Answered("search_businesses")
    /\ Len(split(query_clean(request.query))) = 1
    /\ request.skip = 0
    /\ response.body # <<>>
    /\ Len(response.body) < request.limit
    /\ \E b \in businesses :
          /\ similar(b.state, split(query_clean(request.query))[1])
          /\ b \notin Range(response.body)

ExactName(b, q) == lower(b.name) = q

NoExactField(b, q) == lower(b.name) # q /\ lower(b.city) # q /\ lower(b.state) # q

\* C5: a business whose lower-cased name is the cleaned query is a match and
\* stands, in every order the query may produce and so in the result, before
\* every match none of whose name, city and state equals the query.
C5_ExactNameFirst ==
    Answered("search_businesses") =>
        LET q == query_clean(request.query)
        IN  /\ \A a \in businesses : ExactName(a, q) => a \in search_matches(request.query)
            /\ \A ord \in OrderByRelevance(search_matches(request.query), q) :
                  \A i, j \in DOMAIN ord :
                      ExactName(ord[i], q) /\ NoExactField(ord[j], q) => i < j
            /\ \A i, j \in DOMAIN response.body :
                  ExactName(response.body[i], q) /\ NoExactField(response.body[j], q) => i < j

\* the exact name stands first before a substring match that has more stars
C5_Witness ==
    /\ Answered("search_businesses")
    /\ Len(response.body) = 2
    /\ ExactName(response.body[1], query_clean(request.query))
    /\ NoExactField(response.body[2], query_clean(request.query))
    /\ ContainsNoCase(response.body[2].name, query_clean(request.query))
    /\ response.body[2].stars > response.body[1].stars

(***************************************************************************)
(* Claims about the analytics operations (checked under SpecAnalytics).    *)
(***************************************************************************)
\* a < b on civil dates
DateLT(a, b) == DateLE(a, b) /\ a # b

\* the civil date k days before d
DaysBefore(d, k) == civil_from_days(days_from_civil(d) - k)

\* 1970-01-05 (day number 4) was a Monday
IsMonday(d) == (days_from_civil(d) - 4) % 7 = 0

\* the start of the period a date lies in: the date itself, the Monday on or
\* before it, the first of its month, the first of its year
BucketOf(period, d) ==
    CASE period = "day" -> d
      [] period = "week" -> DaysBefore(d, CHOOSE k \in 0..6 : IsMonday(DaysBefore(d, k)))
      [] period = "month" -> <<d[1], d[2], 1>>
      [] period = "year" -> <<d[1], 1, 1>>

\* the date part of a bucket's period_start
DateOf(period_start) == SubSeq(period_start, 1, 3)

InWindow(d, start_date, end_date) ==
    /\ start_date # NoneDate => ~DateLT(d, start_date)
    /\ end_date # NoneDate => ~DateLT(end_date, d)

\* the reviews of the requested business that lie in the requested window
SourceReviews ==
    {r \in reviews : /\ r.business_id = request.business_id
                     /\ InWindow(r.date, request.start_date, request.end_date)}

BusinessTimelineAnswered ==
    /\ \/ Answered("get_business_ratings_timeline")
       \/ Answered("get_business_sentiment_timeline")
    /\ response.status = HTTP_200_OK

\* C1: the buckets of a business timeline (ratings or sentiment) stand in
\* strictly increasing period_start order, so no period is repeated; each
\* bucket's review_count is the number of the business's reviews in the window
\* whose date truncates to the bucket's period; every period that has such a
\* review has a bucket and no bucket is empty (review_count >= 1).
C1_TimelineBuckets ==
    BusinessTimelineAnswered =>
        LET data == response.body.data
        IN  /\ \A i, j \in 1..Len(data) :
                  i < j => DateLT(DateOf(data[i].period_start),
                                  DateOf(data[j].period_start))
            /\ \A i \in 1..Len(data) :
                  /\ data[i].review_count =
                        Cardinality({r \in SourceReviews :
                            BucketOf(request.period, r.date) = DateOf(data[i].period_start)})
                  /\ data[i].review_count >= 1
            /\ \A r \in SourceReviews :
                  \E i \in 1..Len(data) :
                      DateOf(data[i].period_start) = BucketOf(request.period, r.date)

\* a weekly ratings timeline of B1 from 2023-01-10 on: the review of Sunday
\* 2023-01-01 is outside the window, the others fall in three weeks
C1_Witness ==
    /\ Answered("get_business_ratings_timeline")
    /\ request.business_id = "B1"
    /\ request.period = "week"
    /\ request.start_date = <<2023, 1, 10>>
    /\ request.end_date = NoneDate
    /\ Cardinality({r \in reviews : r.business_id = "B1"}) = 4
    /\ Len(response.body.data) = 3
    /\ response.body.data[1].period_start = <<2023, 1, 9, 0, 0, 0>>
    /\ response.body.data[3].period_start = <<2023, 1, 30, 0, 0, 0>>
    /\ response.body.data[1].review_count = 1

\* a data point without its business_count
WithoutCount(point) == [f \in DOMAIN point \ {"business_count"} |-> point[f]]

WithoutCounts(points) == [i \in 1..Len(points) |-> WithoutCount(points[i])]

ComparisonAnswered(op) == Answered(op) /\ response.status = HTTP_200_OK

\* the business timeline of the request, aggregated on its own
BusinessSeries ==
    IF request.metric = "rating"
    THEN get_business_ratings_over_time(request.business_id, request.period,
                                        request.start_date, request.end_date)
    ELSE get_business_sentiment_over_time(request.business_id, request.period,
                                          request.start_date, request.end_date)

\* the city timeline of the request, aggregated on its own
CitySeries ==
    IF request.metric = "rating"
    THEN get_city_ratings_over_time(response.body.city, response.body.state,
                                    request.period, request.start_date, request.end_date)
    ELSE get_city_sentiment_over_time(response.body.city, response.body.state,
                                      request.period, request.start_date, request.end_date)

\* the state timeline of the request, aggregated on its own
StateSeries ==
    IF request.metric = "rating"
    THEN get_state_ratings_over_time(response.body.state, request.period,
                                     request.start_date, request.end_date)
    ELSE get_state_sentiment_over_time(response.body.state, request.period,
                                       request.start_date, request.end_date)

\* C2: the two lists of a paired comparison (city or state, rating or
\* sentiment) are, point for point and in the same order, the business
\* timeline and the peer timeline aggregated separately with the same
\* parameters; the business points carry the added business_count 1, the peer
\* points are equal as they stand.
C2_ComparisonSplitsIntoSeries ==
    /\ ComparisonAnswered("get_business_timeline_with_city_comparison") =>
          /\ WithoutCounts(response.body.business_data) = BusinessSeries
          /\ \A i \in 1..Len(response.body.business_data) :
                response.body.business_data[i].business_count = 1
          /\ response.body.city_average = CitySeries
    /\ ComparisonAnswered("get_business_timeline_with_state_comparison") =>
          /\ WithoutCounts(response.body.business_data) = BusinessSeries
          /\ \A i \in 1..Len(response.body.business_data) :
                response.body.business_data[i].business_count = 1
          /\ response.body.state_average = StateSeries

\* a weekly city comparison in which the business has two buckets and the
\* city shares a bucket with it that holds a second business's review
C2_Witness ==
    /\ ComparisonAnswered("get_business_timeline_with_city_comparison")
    /\ request.metric = "rating"
    /\ request.period = "week"
    /\ Len(response.body.business_data) >= 2
    /\ \E i \in 1..Len(response.body.business_data),
          j \in 1..Len(response.body.city_average) :
          /\ response.body.business_data[i].period_start =
                response.body.city_average[j].period_start
          /\ response.body.city_average[j].business_count = 2
          /\ response.body.city_average[j].avg_rating #
                response.body.business_data[i].avg_rating

AnalyticsOps ==
    {"get_business_ratings_timeline", "get_business_sentiment_timeline",
     "get_business_timeline_with_city_comparison",
     "get_business_timeline_with_state_comparison",
     "get_city_ratings_timeline", "get_state_ratings_timeline"}

AnalyticsAnswered == pc = "done" /\ request.op \in AnalyticsOps

BadPeriod == request.period \notin {"day", "week", "month", "year"}

BadMetric == "metric" \in DOMAIN request /\ request.metric \notin {"rating", "sentiment"}

UnknownBusiness ==
    /\ "business_id" \in DOMAIN request
    /\ \A b \in businesses : b.business_id # request.business_id

\* no review aggregation was run and the answer is an error, not a payload
NothingAggregated ==
    /\ \A i \in 1..Len(calls) : calls[i] = "get_by_id"
    /\ DOMAIN response.body = {"detail"}

\* C8: an analytics request with a period outside {day, week, month, year} or
\* a metric outside {rating, sentiment} fails with 400, one with valid
\* parameters and a business id that is not stored fails with 404; in each
\* case no review aggregation query was run and no payload is returned.
C8_RejectedBeforeAggregation ==
    AnalyticsAnswered =>
        /\ BadPeriod \/ BadMetric =>
              response.status = HTTP_400_BAD_REQUEST /\ NothingAggregated
        /\ UnknownBusiness /\ ~BadPeriod /\ ~BadMetric =>
              response.status = HTTP_404_NOT_FOUND /\ NothingAggregated

\* a comparison of a stored business over a valid period with the metric
\* "stars" is refused before any repository call
C8_Witness ==
    /\ Answered("get_business_timeline_with_city_comparison")
    /\ request.metric = "stars"
    /\ request.period = "month"
    /\ \E b \in businesses : b.business_id = request.business_id
    /\ response.status = HTTP_400_BAD_REQUEST
    /\ calls = <<>>

\* every arrangement of a set of rows by relevance score descending, then
\* stars descending, then review_count descending
ArrangedByRelevance(rows, q) ==
    { L \in [1..Cardinality(rows) -> rows] :
        /\ \A i, j \in DOMAIN L : i # j => L[i] # L[j]
        /\ \A i, j \in DOMAIN L :
              i < j =>
                ~( \/ FracGreater(relevance_score(L[j], q), relevance_score(L[i], q))
                   \/ /\ FracEqual(relevance_score(L[j], q), relevance_score(L[i], q))
                      /\ \/ L[j].stars > L[i].stars
                         \/ L[j].stars = L[i].stars
                            /\ L[j].review_count > L[i].review_count ) }

\* C11: the search result is positions skip .. skip+limit-1 of the list of all
\* matches ordered by relevance score descending, then stars descending, then
\* review_count descending; it is never longer than limit.
C11_SearchSlice ==
    Answered("search_businesses") =>
        /\ Len(response.body) <= request.limit
        /\ \E L \in ArrangedByRelevance(search_matches(request.query),
                                        query_clean(request.query)) :
              response.body = Positions(L, request.skip, request.limit)

\* the one result at position 1 follows a skipped match of the same score
\* that has more stars or reviews, and is followed by a match left out
C11_Witness ==
    /\ Answered("search_businesses")
    /\ request.skip = 1
    /\ request.limit = 1
    /\ Len(response.body) = 1
    /\ Cardinality(search_matches(request.query)) = 3
    /\ \E a \in search_matches(request.query) :
          /\ FracEqual(relevance_score(a, query_clean(request.query)),
                       relevance_score(response.body[1], query_clean(request.query)))
          /\ StarsBefore(a, response.body[1])

\* the terms of the request: the trimmed, lower-cased query cut at whitespace
Terms == split(query_clean(request.query))

Fields(b) == {b.name, b.city, b.state, b.categories}

\* the businesses that satisfy at least one term
AnyTermMatches == {b \in businesses : \E i \in 1..Len(Terms) : AmendedTermMatch(b, Terms[i])}

\* C12: a query with terms matches a business when at least one of its
\* lower-cased, whitespace-separated terms matches at least one field: the
\* result is a page of exactly the businesses that satisfy some term, and
\* every business one of whose fields contains one of the terms is among them,
\* whether or not another term matches.
C12_AnyTermAnyField ==
    Answered("search_businesses") /\ Len(Terms) >= 1 =>
        /\ PageOf(AnyTermMatches)
        /\ \A b \in businesses :
              (\E i \in 1..Len(Terms) : \E f \in Fields(b) : ContainsNoCase(f, Terms[i]))
                  => b \in AnyTermMatches

\* a two-term query given in mixed case returned two businesses, each of
\* which has only one of the two terms in a field
C12_Witness ==
    /\ Answered("search_businesses")
    /\ Len(Terms) = 2
    /\ request.query # lower(request.query)
    /\ Len(response.body) = 2
    /\ \E x, y \in Range(response.body) :
          /\ \E f \in Fields(x) : ContainsNoCase(f, Terms[1])
          /\ \A f \in Fields(x) : ~ContainsNoCase(f, Terms[2])
          /\ \E f \in Fields(y) : ContainsNoCase(f, Terms[2])
          /\ \A f \in Fields(y) : ~ContainsNoCase(f, Terms[1])

\* the reviews of the businesses of a city of a state, and of a state
ReviewsOfCity(city, state) ==
    {r \in reviews : \E b \in businesses :
        b.business_id = r.business_id /\ b.city = city /\ b.state = state}

ReviewsOfState(state) ==
    {r \in reviews : \E b \in businesses : b.business_id = r.business_id /\ b.state = state}

ReviewsOfBusiness(id) == {r \in reviews : r.business_id = id}

\* the reviews of a scope dated on or after start_date (when given) and on or
\* before end_date (when given)
Windowed(scope) ==
    {r \in scope : InWindow(r.date, request.start_date, request.end_date)}

\* the number of reviews a list of buckets counts
RECURSIVE Counted(_)
Counted(list) ==
    IF list = <<>> THEN 0 ELSE Head(list).review_count + Counted(Tail(list))

\* the dates of the buckets of a daily list
Days(list) == {DateOf(list[i].period_start) : i \in 1..Len(list)}

AnalyticsOk(op) == Answered(op) /\ response.status = HTTP_200_OK

\* C13: in every timeline and comparison the window is inclusive at both
\* ends and open where a bound is absent: each returned list counts exactly
\* the reviews of its scope dated from start_date to end_date, both included.
C13_InclusiveWindow ==
    /\ AnalyticsOk("get_business_ratings_timeline") \/ AnalyticsOk("get_business_sentiment_timeline") =>
          Counted(response.body.data) =
              Cardinality(Windowed(ReviewsOfBusiness(request.business_id)))
    /\ AnalyticsOk("get_city_ratings_timeline") =>
          Counted(response.body.data) =
              Cardinality(Windowed(ReviewsOfCity(request.city, request.state)))
    /\ AnalyticsOk("get_state_ratings_timeline") =>
          Counted(response.body.data) =
              Cardinality(Windowed(ReviewsOfState(request.state)))
    /\ AnalyticsOk("get_business_timeline_with_city_comparison") =>
          /\ Counted(response.body.business_data) =
                Cardinality(Windowed(ReviewsOfBusiness(request.business_id)))
          /\ Counted(response.body.city_average) =
                Cardinality(Windowed(ReviewsOfCity(response.body.city, response.body.state)))
    /\ AnalyticsOk("get_business_timeline_with_state_comparison") =>
          /\ Counted(response.body.business_data) =
                Cardinality(Windowed(ReviewsOfBusiness(request.business_id)))
          /\ Counted(response.body.state_average) =
                Cardinality(Windowed(ReviewsOfState(response.body.state)))

\* a daily city comparison from 2023-01-10 to 2023-01-30 counts the review of
\* the first day and the review of the last day, and neither the review of
\* 2023-01-01 nor that of 2023-02-01
C13_Witness ==
    /\ AnalyticsOk("get_business_timeline_with_city_comparison")
    /\ request.period = "day"
    /\ request.start_date = <<2023, 1, 10>>
    /\ request.end_date = <<2023, 1, 30>>
    /\ {r.date : r \in ReviewsOfCity(response.body.city, response.body.state)} =
          {<<2023, 1, 1>>, <<2023, 1, 10>>, <<2023, 1, 20>>, <<2023, 1, 30>>, <<2023, 2, 1>>}
    /\ Days(response.body.city_average) = {<<2023, 1, 10>>, <<2023, 1, 20>>, <<2023, 1, 30>>}
    /\ Days(response.body.business_data) = {<<2023, 1, 10>>, <<2023, 1, 20>>}

\* the sum of a field over a set of reviews
RECURSIVE Total(_, _)
Total(S, field) ==
    IF S = {} THEN 0
    ELSE LET r == CHOOSE x \in S : TRUE IN r[field] + Total(S \ {r}, field)

\* the fraction x is the arithmetic mean of a field over the reviews S
IsMeanOf(x, S, field) ==
    /\ S # {}
    /\ x.den > 0
    /\ x.num * Cardinality(S) = x.den * Total(S, field)

\* the reviews of a scope that a bucket counts
InBucket(scope, bucket) ==
    {r \in Windowed(scope) :
        BucketOf(request.period, r.date) = DateOf(bucket.period_start)}

RatingMeans(list, scope) ==
    \A i \in 1..Len(list) :
        /\ IsMeanOf(list[i].avg_rating, InBucket(scope, list[i]), "stars")
        /\ list[i].review_count = Cardinality(InBucket(scope, list[i]))

SentimentMeans(list, scope) ==
    \A i \in 1..Len(list) :
        /\ IsMeanOf(list[i].avg_sentiment_score, InBucket(scope, list[i]),
                    "sentiment_score_prob_diff")
        /\ IsMeanOf(list[i].avg_sentiment_expected, InBucket(scope, list[i]),
                    "sentiment_score_expected")
        /\ list[i].review_count = Cardinality(InBucket(scope, list[i]))

\* business B1 has exactly the reviews of 2023-01-10 (4 stars) and 2023-01-20
\* (5 stars) and its monthly ratings timeline is asked for without a window
ExampleAsked ==
    /\ AnalyticsOk("get_business_ratings_timeline")
    /\ request.business_id = "B1"
    /\ request.period = "month"
    /\ request.start_date = NoneDate
    /\ request.end_date = NoneDate
    /\ {<<r.date, r.stars>> : r \in ReviewsOfBusiness("B1")} =
          {<<<<2023, 1, 10>>, 4>>, <<<<2023, 1, 20>>, 5>>}

\* C14: in every timeline bucket avg_rating is the mean of stars,
\* avg_sentiment_score the mean of sentiment_score_prob_diff and
\* avg_sentiment_expected the mean of sentiment_score_expected over exactly
\* the reviews the bucket counts; two reviews of 2023-01-10 (4 stars) and
\* 2023-01-20 (5 stars) give, by month, one bucket that starts on 2023-01-01
\* with avg_rating 9/2 and review_count 2.
C14_BucketMeans ==
    /\ AnalyticsOk("get_business_ratings_timeline") =>
          RatingMeans(response.body.data, ReviewsOfBusiness(request.business_id))
    /\ AnalyticsOk("get_business_sentiment_timeline") =>
          SentimentMeans(response.body.data, ReviewsOfBusiness(request.business_id))
    /\ AnalyticsOk("get_city_ratings_timeline") =>
          RatingMeans(response.body.data, ReviewsOfCity(request.city, request.state))
    /\ AnalyticsOk("get_state_ratings_timeline") =>
          RatingMeans(response.body.data, ReviewsOfState(request.state))
    /\ ExampleAsked =>
          /\ Len(response.body.data) = 1
          /\ DateOf(response.body.data[1].period_start) = <<2023, 1, 1>>
          /\ response.body.data[1].avg_rating = [num |-> 9, den |-> 2]
          /\ response.body.data[1].review_count = 2

\* the example is asked while another business of the city has a review in
\* the same month
C14_Witness ==
    /\ ExampleAsked
    /\ \E r \in reviews : r.business_id = "B2" /\ r.date = <<2023, 1, 30>>
    /\ Len(response.body.data) = 1

\* every bucket of the list counts the reviews of the scope that fall in it
\* and the distinct businesses those reviews belong to
ScopeCounts(list, scope) ==
    \A i \in 1..Len(list) :
        /\ list[i].review_count = Cardinality(InBucket(scope, list[i]))
        /\ list[i].business_count =
              Cardinality({r.business_id : r \in InBucket(scope, list[i])})

\* C15: in every bucket of a city timeline or a state timeline, business_count
\* is the number of distinct businesses of the city (city and state both
\* matching) or of the state that have a review counted in the bucket, and
\* review_count counts the reviews of those businesses only.
C15_DistinctBusinesses ==
    /\ AnalyticsOk("get_city_ratings_timeline") =>
          ScopeCounts(response.body.data, ReviewsOfCity(request.city, request.state))
    /\ AnalyticsOk("get_state_ratings_timeline") =>
          ScopeCounts(response.body.data, ReviewsOfState(request.state))

\* a monthly city timeline whose first bucket holds reviews of two businesses,
\* while a business of the same city name in another state has a review too
C15_Witness ==
    /\ AnalyticsOk("get_city_ratings_timeline")
    /\ request.period = "month"
    /\ \E b \in businesses : b.city = request.city /\ b.state # request.state
                             /\ ReviewsOfBusiness(b.business_id) # {}
    /\ Len(response.body.data) >= 1
    /\ response.body.data[1].business_count = 2
    /\ response.body.data[1].review_count > 2

\* the fields of a comparison data point of the requested metric
PointFields ==
    IF request.metric = "rating"
    THEN {"period_start", "avg_rating", "review_count", "business_count"}
    ELSE {"period_start", "avg_sentiment_score", "avg_sentiment_expected",
          "review_count", "business_count"}

\* the periods in which a scope has a review inside the window
PeriodsOf(scope) == {BucketOf(request.period, r.date) : r \in Windowed(scope)}

\* the list has one point per period of the scope, each counting the scope's
\* reviews of that period
SeriesOf(list, scope) ==
    /\ Len(list) = Cardinality(PeriodsOf(scope))
    /\ Days(list) = PeriodsOf(scope)
    /\ \A i \in 1..Len(list) :
          list[i].review_count = Cardinality(InBucket(scope, list[i]))

\* the two lists of a comparison against the reviews of a peer scope
SplitByOrigin(business_data, peer_data, peer_scope) ==
    /\ \A i \in 1..Len(business_data) : business_data[i].business_count = 1
    /\ SeriesOf(business_data, ReviewsOfBusiness(request.business_id))
    /\ SeriesOf(peer_data, peer_scope)
    /\ ScopeCounts(peer_data, peer_scope)
    /\ \A p \in Range(business_data) \cup Range(peer_data) : DOMAIN p = PointFields

\* C16: in the four paired comparisons every business-side point has
\* business_count 1, the business-side list holds exactly the rows of the
\* business query and the peer-side list exactly the rows of the peer query
\* (one per period of its scope, with that scope's counts), and the points of
\* both lists have the same fields.
C16_ComparisonShape ==
    /\ AnalyticsOk("get_business_timeline_with_city_comparison") =>
          SplitByOrigin(response.body.business_data, response.body.city_average,
                        ReviewsOfCity(response.body.city, response.body.state))
    /\ AnalyticsOk("get_business_timeline_with_state_comparison") =>
          SplitByOrigin(response.body.business_data, response.body.state_average,
                        ReviewsOfState(response.body.state))

\* a daily sentiment comparison with the state: two business points, more
\* state points, one of them shared with a second business
C16_Witness ==
    /\ AnalyticsOk("get_business_timeline_with_state_comparison")
    /\ request.metric = "sentiment"
    /\ request.period = "day"
    /\ Len(response.body.business_data) = 2
    /\ Len(response.body.state_average) > 2
    /\ \E i \in 1..Len(response.body.state_average) :
          /\ response.body.state_average[i].business_count = 2
          /\ response.body.state_average[i].period_start =
                response.body.business_data[1].period_start

\* the list holds every text of the set once, in ascending order
SortedListOf(list, texts) ==
    /\ Range(list) = texts
    /\ Len(list) = Cardinality(texts)
    /\ \A i, j \in 1..Len(list) : i < j => TextLess(list[i], list[j])

StatesStored == {b.state : b \in businesses}

CitiesStored(state) == {b.city : b \in {x \in businesses : x.state = state}}

\* the repository's two enumerations
RepositoryRegionLists ==
    /\ Answered("get_states") => SortedListOf(response.body, StatesStored)
    /\ Answered("get_cities_by_state") =>
          SortedListOf(response.body, CitiesStored(request.state))

\* the /states and /cities endpoints deliver them
EndpointsDeliver ==
    /\ Answered("locations.get_states") =>
          /\ response.status = HTTP_200_OK
          /\ SortedListOf(response.body, StatesStored)
    /\ Answered("locations.get_cities") =>
          /\ response.status = HTTP_200_OK
          /\ SortedListOf(response.body, CitiesStored(upper(request.state)))

\* C17: get_states returns every stored state once in ascending order,
\* get_cities_by_state every city of the state once in ascending order and no
\* city of another state, and the /states and /cities endpoints deliver these
\* lists to the caller.
C17_RegionLists == RepositoryRegionLists /\ EndpointsDeliver

\* the request names a city of a state, or a state, that no business has
UnknownCity ==
    /\ Answered("get_city_ratings_timeline")
    /\ \A b \in businesses : ~(b.city = request.city /\ b.state = request.state)

UnknownState ==
    /\ Answered("get_state_ratings_timeline")
    /\ \A b \in businesses : b.state # request.state

\* C18 as stated: a city or state timeline request that names a city or
\* state no business is stored for is answered with a not-found error, and no
\* aggregation is run.
C18_UnknownRegionNotFound ==
    UnknownCity \/ UnknownState =>
        response.status = HTTP_404_NOT_FOUND /\ NothingAggregated

\* C18 (amended): a city or state timeline request that names a city or state
\* no business is stored for is not rejected: with a valid period the
\* aggregation is run and the request succeeds with an empty data list and
\* the city and state echoed; with an invalid period it fails with 400.
C18_UnknownRegionEmpty ==
    /\ UnknownCity \/ UnknownState =>
          IF BadPeriod
          THEN response.status = HTTP_400_BAD_REQUEST /\ NothingAggregated
          ELSE /\ response.status = HTTP_200_OK
               /\ response.body.data = <<>>
               /\ response.body.state = request.state
               /\ Len(calls) = 1
    /\ UnknownCity /\ ~BadPeriod =>
          /\ response.body.city = request.city
          /\ calls = <<"get_city_ratings_over_time">>
    /\ UnknownState /\ ~BadPeriod =>
          calls = <<"get_state_ratings_over_time">>

\* a city timeline for a city name that is stored, with reviews, in another
\* state only
C18_Witness ==
    /\ UnknownCity
    /\ ~BadPeriod
    /\ \E b \in businesses : b.city = request.city /\ ReviewsOfBusiness(b.business_id) # {}
    /\ response.status = HTTP_200_OK
    /\ response.body.data = <<>>

\* every execution of the listing with the request's parameters on the stored
\* data returns the list that was returned
ListingDeterministic ==
    Answered("get_businesses") =>
        \A again \in get_all(normalized_state(request.state), request.city,
                             request.skip, request.limit) :
            again = response.body

ViewportDeterministic ==
    Answered("get_businesses_in_viewport") /\ response.status = HTTP_200_OK =>
        \A again \in get_in_viewport(request.south, request.north, request.west,
                                     request.east, request.limit) :
            again = response.body

LookupDeterministic ==
    Answered("get_business_by_id") /\ response.status = HTTP_200_OK =>
        response.body = <<get_by_id(request.business_id)>>

\* C19: a read repeated with the same parameters on unchanged data returns
\* the same elements in the same order, also when businesses tie on every
\* ordering key: whatever a second execution of the lookup, the listing or
\* the viewport query may return is what the first returned.
C19_ReadsDeterministic ==
    LookupDeterministic /\ ListingDeterministic /\ ViewportDeterministic

\* the same for the search (under SpecSearch)
SearchDeterministic ==
    Answered("search_businesses") =>
        \A again \in search(request.query, request.skip, request.limit) :
            again = response.body

\* the same for the comparisons (under SpecAnalytics): the row order the
\* UNION ALL leaves open does not reach the two lists
ComparisonDeterministic ==
    /\ AnalyticsOk("get_business_timeline_with_city_comparison") =>
          \A again \in (IF request.metric = "rating"
                        THEN get_business_and_city_ratings_comparison(
                                 request.business_id, response.body.city,
                                 response.body.state, request.period,
                                 request.start_date, request.end_date)
                        ELSE get_business_and_city_sentiment_comparison(
                                 request.business_id, response.body.city,
                                 response.body.state, request.period,
                                 request.start_date, request.end_date)) :
              /\ again.business_data = response.body.business_data
              /\ again.peer_data = response.body.city_average
    /\ AnalyticsOk("get_business_timeline_with_state_comparison") =>
          \A again \in (IF request.metric = "rating"
                        THEN get_business_and_state_ratings_comparison(
                                 request.business_id, response.body.state,
                                 request.period, request.start_date, request.end_date)
                        ELSE get_business_and_state_sentiment_comparison(
                                 request.business_id, response.body.state,
                                 request.period, request.start_date, request.end_date)) :
              /\ again.business_data = response.body.business_data
              /\ again.peer_data = response.body.state_average


(***************************************************************************)
(* Claims about the whole API (checked under SpecApi).                     *)
(***************************************************************************)
\* the operations of the API, by the name a request carries
ApiOps == {"get_business_by_id", "get_businesses", "get_businesses_in_viewport",
           "search_businesses"} \cup AnalyticsOps
          \cup {"get_states", "get_cities_by_state",
                "locations.get_states", "locations.get_cities"}

PeerCovers(business_list, peer_list) ==
    /\ \A i \in 1..Len(business_list) :
          \E j \in 1..Len(peer_list) :
              /\ peer_list[j].period_start = business_list[i].period_start
              /\ peer_list[j].review_count >= business_list[i].review_count
              /\ peer_list[j].business_count >= 1
    /\ Len(peer_list) >= Len(business_list)

\* C23: in a comparison run through the service, which passes the business's
\* own city and state as the peer scope, every bucket of business_data has a
\* peer bucket of the same period_start with review_count at least the
\* business bucket's and business_count at least 1, and the peer list is never
\* shorter than the business list.
C23_PeerCoversBusiness ==
    /\ AnalyticsOk("get_business_timeline_with_city_comparison") =>
          PeerCovers(response.body.business_data, response.body.city_average)
    /\ AnalyticsOk("get_business_timeline_with_state_comparison") =>
          PeerCovers(response.body.business_data, response.body.state_average)

\* a daily state comparison from 2023-01-10 on in which the business has a
\* review on the first day of the window, and the state has more buckets than
\* the business and a bucket that counts more reviews than the business's
C23_Witness ==
    /\ AnalyticsOk("get_business_timeline_with_state_comparison")
    /\ request.period = "day"
    /\ request.start_date = <<2023, 1, 10>>
    /\ \E r \in ReviewsOfBusiness(request.business_id) : r.date = request.start_date
    /\ Len(response.body.business_data) >= 2
    /\ Len(response.body.state_average) > Len(response.body.business_data)
    /\ \E i \in 1..Len(response.body.business_data) :
          \E j \in 1..Len(response.body.state_average) :
              /\ response.body.state_average[j].period_start =
                    response.body.business_data[i].period_start
              /\ response.body.state_average[j].review_count >
                    response.body.business_data[i].review_count

\* the business-scoped analytics operations
BusinessScopedOps ==
    {"get_business_ratings_timeline", "get_business_sentiment_timeline",
     "get_business_timeline_with_city_comparison",
     "get_business_timeline_with_state_comparison"}

\* C26: in the business-scoped analytics operations the period, and the
\* metric of a comparison, are validated before the business is looked up: a
\* request with an invalid period or metric and an unknown business id fails
\* with 400 and no business lookup; one with valid period and metric and an
\* unknown id fails with 404 after exactly one business lookup and no
\* aggregation.
C26_ValidationBeforeLookup ==
    pc = "done" /\ request.op \in BusinessScopedOps /\ UnknownBusiness =>
        /\ BadPeriod \/ BadMetric =>
              /\ response.status = HTTP_400_BAD_REQUEST
              /\ calls = <<>>
        /\ ~BadPeriod /\ ~BadMetric =>
              /\ response.status = HTTP_404_NOT_FOUND
              /\ calls = <<"get_by_id">>

\* a comparison with the period "hour" for a business id that is not stored
\* was refused with 400 and nothing was looked up
C26_Witness ==
    /\ Answered("get_business_timeline_with_state_comparison")
    /\ UnknownBusiness
    /\ request.period = "hour"
    /\ request.metric = "rating"
    /\ businesses # {}
    /\ response.status = HTTP_400_BAD_REQUEST
    /\ calls = <<>>

\* in every bucket 1 <= business_count <= review_count, and the buckets count
\* the windowed reviews of the scope, each once
ScopeTotals(list, scope) ==
    /\ \A i \in 1..Len(list) :
          /\ 1 <= list[i].business_count
          /\ list[i].business_count <= list[i].review_count
    /\ Counted(list) = Cardinality(Windowed(scope))

\* C28: in every bucket of a city-scope or state-scope aggregation (a
\* standalone timeline or the peer side of a comparison) 1 <= business_count
\* <= review_count, and the review_count of all buckets sums to the number of
\* reviews of businesses of the scope that fall in the date window.
C28_ScopeBucketTotals ==
    /\ AnalyticsOk("get_city_ratings_timeline") =>
          ScopeTotals(response.body.data, ReviewsOfCity(request.city, request.state))
    /\ AnalyticsOk("get_state_ratings_timeline") =>
          ScopeTotals(response.body.data, ReviewsOfState(request.state))
    /\ AnalyticsOk("get_business_timeline_with_city_comparison") =>
          ScopeTotals(response.body.city_average,
                      ReviewsOfCity(response.body.city, response.body.state))
    /\ AnalyticsOk("get_business_timeline_with_state_comparison") =>
          ScopeTotals(response.body.state_average, ReviewsOfState(response.body.state))

\* a monthly state timeline in a window that leaves a stored review of the
\* state out, with a bucket of one business holding two reviews while three
\* businesses are stored
C28_Witness ==
    /\ AnalyticsOk("get_state_ratings_timeline")
    /\ request.period = "month"
    /\ request.start_date # NoneDate
    /\ Cardinality(businesses) = 3
    /\ Windowed(ReviewsOfState(request.state)) # ReviewsOfState(request.state)
    /\ \E i \in 1..Len(response.body.data) :
          /\ response.body.data[i].business_count = 1
          /\ response.body.data[i].review_count = 2

\* both bounds are given and the start is later than the end
InvertedWindow ==
    /\ request.start_date # NoneDate
    /\ request.end_date # NoneDate
    /\ DateLT(request.end_date, request.start_date)

\* C29: a timeline or comparison whose start_date is later than its end_date
\* is not rejected: for a stored business (where the operation names one) and
\* valid period and metric it succeeds with empty data lists, and start_date
\* and end_date stand in the response as given.
C29_InvertedWindowIsEmpty ==
    AnalyticsAnswered /\ InvertedWindow /\ ~BadPeriod /\ ~BadMetric /\ ~UnknownBusiness =>
        /\ response.status = HTTP_200_OK
        /\ response.body.start_date = request.start_date
        /\ response.body.end_date = request.end_date
        /\ request.op \in {"get_business_ratings_timeline",
                           "get_business_sentiment_timeline",
                           "get_city_ratings_timeline",
                           "get_state_ratings_timeline"} =>
              response.body.data = <<>>
        /\ request.op = "get_business_timeline_with_city_comparison" =>
              response.body.business_data = <<>> /\ response.body.city_average = <<>>
        /\ request.op = "get_business_timeline_with_state_comparison" =>
              response.body.business_data = <<>> /\ response.body.state_average = <<>>

\* a ratings timeline from 2023-02-01 to 2023-01-30 of a business that has a
\* review on 2023-02-01 and reviews before 2023-01-30 came back empty
C29_Witness ==
    /\ AnalyticsOk("get_business_ratings_timeline")
    /\ request.start_date = <<2023, 2, 1>>
    /\ request.end_date = <<2023, 1, 30>>
    /\ \E r \in ReviewsOfBusiness(request.business_id) : r.date = <<2023, 2, 1>>
    /\ \E r \in ReviewsOfBusiness(request.business_id) : DateLT(r.date, <<2023, 1, 30>>)
    /\ response.body.data = <<>>


(***************************************************************************)
(* A further claim about search (checked under SpecSearch).                *)
(***************************************************************************)
\* the query has no character other than spaces
Blank(query) == \A i \in 1..Len(query) : query[i] = " "

\* C27: when the query has no terms after trimming (it is empty or only
\* whitespace), search applies no match filter: the result is positions
\* skip .. skip+limit-1 of all stored businesses ordered by relevance score,
\* stars and review_count.
C27_BlankQueryMatchesAll ==
    Answered("search_businesses") /\ Blank(request.query) =>
        /\ \A b \in businesses :
              \E L \in ArrangedByRelevance(businesses, <<>>) :
                  \E i \in 1..Len(L) : L[i] = b
        /\ \E L \in ArrangedByRelevance(businesses, <<>>) :
              response.body = Positions(L, request.skip, request.limit)
        /\ Len(response.body) =
              Min(request.limit, Max(0, Cardinality(businesses) - request.skip))

\* the query " " on a store of three businesses, skip 1 and limit 2: the
\* two businesses after the first come back, though " " is in no field
C27_Witness ==
    /\ Answered("search_businesses")
    /\ request.query = <<" ">>
    /\ Cardinality(businesses) = 3
    /\ request.skip = 1
    /\ request.limit = 2
    /\ Len(response.body) = 2
    /\ \A b \in businesses : ~Contains(b.name, <<" ">>)


(***************************************************************************)
(* Claims about the seeding script (checked under SpecSeed).               *)
(***************************************************************************)
\* seed_photos has run in this run of the script (it may have raised)
PhotosSeeded ==
    \/ seed.phase \in {"reviews", "done"}
    \/ seed.phase = "failed" /\ seed.businesses.raised = NoException

\* seed_reviews has run in this run of the script (it may have raised)
ReviewsSeeded ==
    \/ seed.phase = "done"
    \/ /\ seed.phase = "failed"
       /\ seed.businesses.raised = NoException
       /\ seed.photos.raised = NoException

\* the record names a business that is not stored
Orphan(record) == \A b \in businesses : b.business_id # record.business_id

\* the places of a list that hold an orphan
OrphansOf(data) == {i \in 1..Len(data) : Orphan(data[i])}

\* every stored photo and review references a stored business
ReferencesHold ==
    /\ \A p \in photos : ~Orphan(p)
    /\ \A r \in reviews : ~Orphan(r)

\* no orphan of the list was given to session.add
NoOrphanAdded(data, outcome) ==
    \A i \in OrphansOf(data) :
        \A k \in 1..Len(outcome.added) :
            outcome.added[k].business_id # data[i].business_id

\* C21 as stated: after the seed run every stored photo and review
\* references a stored business, and every photo or review whose business_id
\* matches no stored business is skipped, counted as orphaned, and never
\* added to the session.
C21_OrphansCounted ==
    /\ ReferencesHold
    /\ PhotosSeeded =>
          /\ NoOrphanAdded(seed.data.photos, seed.photos)
          /\ seed.photos.orphaned = Cardinality(OrphansOf(seed.data.photos))
    /\ ReviewsSeeded =>
          /\ NoOrphanAdded(seed.data.reviews, seed.reviews)
          /\ seed.reviews.orphaned = Cardinality(OrphansOf(seed.data.reviews))

\* the orphans of a list whose own id was not stored when the function began
NewOrphansOf(data, key, table) ==
    {i \in OrphansOf(data) : \A row \in table : row[key] # data[i][key]}

\* C21 amended: every stored photo and review references a stored business
\* and no orphan is ever added to the session; an orphan is counted as
\* orphaned when its own id is not stored yet, and as skipped (an existing
\* record) when it is, because the id is looked up first.
C21_OrphansNeverStored ==
    /\ ReferencesHold
    /\ PhotosSeeded =>
          /\ NoOrphanAdded(seed.data.photos, seed.photos)
          /\ seed.photos.orphaned =
                Cardinality(NewOrphansOf(seed.data.photos, "photo_id", seed.before.photos))
          /\ seed.photos.skipped >=
                Cardinality(OrphansOf(seed.data.photos)) - seed.photos.orphaned
    /\ ReviewsSeeded =>
          /\ NoOrphanAdded(seed.data.reviews, seed.reviews)
          /\ seed.reviews.orphaned =
                Cardinality(NewOrphansOf(seed.data.reviews, "review_id", seed.before.reviews))
          /\ seed.reviews.skipped >=
                Cardinality(OrphansOf(seed.data.reviews)) - seed.reviews.orphaned

\* a finished run that stored a photo and a review and passed over an orphan
\* photo and an orphan review
C21_Witness ==
    /\ seed.phase = "done"
    /\ photos # {}
    /\ reviews # {}
    /\ seed.photos.orphaned >= 1
    /\ seed.reviews.orphaned >= 1
    /\ OrphansOf(seed.data.photos) # {}
    /\ OrphansOf(seed.data.reviews) # {}


\* no two objects given to session.add have the same id
DistinctAdded(outcome, key) ==
    \A i, j \in 1..Len(outcome.added) :
        i < j => outcome.added[i][key] # outcome.added[j][key]

\* the ids of the records of a list that are not stored in the table
NewIds(records, key, table) ==
    {r[key] : r \in {x \in records : \A row \in table : row[key] # x[key]}}

\* the records of a list that name a stored business
Placed(data) == {data[i] : i \in 1..Len(data) \ OrphansOf(data)}

\* the records of a reviews list whose date is a day of the calendar
Dated(records) ==
    {r \in records : /\ r.date # <<>>
                     /\ r.date[1] \in {<<2023, 1, 10>>, <<2023, 1, 20>>}}

\* C25: within one seeding run each seed function adds at most one record per
\* id: a record whose id is stored, or was added earlier in the run and is
\* not committed yet, is skipped, so the inserted count is the number of new
\* distinct ids; and a second run over a seeded store inserts nothing.
C25_OneRecordPerId ==
    /\ seed.phase \in {"photos", "reviews", "done", "failed"} =>
          /\ DistinctAdded(seed.businesses, "business_id")
          /\ seed.businesses.inserted =
                Cardinality(NewIds({seed.data.businesses[i] :
                                       i \in 1..Len(seed.data.businesses)},
                                   "business_id", seed.before.businesses))
    /\ PhotosSeeded =>
          /\ DistinctAdded(seed.photos, "photo_id")
          /\ seed.photos.inserted =
                Cardinality(NewIds(Placed(seed.data.photos), "photo_id",
                                   seed.before.photos))
    /\ ReviewsSeeded =>
          /\ DistinctAdded(seed.reviews, "review_id")
          /\ seed.reviews.inserted =
                Cardinality(NewIds(Dated(Placed(seed.data.reviews)), "review_id",
                                   seed.before.reviews))
    /\ seed.run = 2 /\ seed.earlier = "done" /\ seed.phase = "done" =>
          /\ seed.businesses.inserted = 0
          /\ seed.photos.inserted = 0
          /\ seed.reviews.inserted = 0

\* the part of C25 that holds: nothing already stored is added again, the
\* store never holds two rows of one id, and a second run after a first that
\* ended well inserts nothing
C25_StoredIdsSkipped ==
    /\ \A a, b \in businesses : a.business_id = b.business_id => a = b
    /\ \A a, b \in photos : a.photo_id = b.photo_id => a = b
    /\ \A a, b \in reviews : a.review_id = b.review_id => a = b
    /\ \A k \in 1..Len(seed.businesses.added) :
          \A row \in seed.before.businesses :
              row.business_id # seed.businesses.added[k].business_id
    /\ seed.run = 2 /\ seed.earlier = "done" /\ seed.phase # "businesses" =>
          /\ seed.businesses.inserted = 0
          /\ seed.phase # "failed"


(***************************************************************************)
(* A claim about JSONRepository (checked under SpecJson).                  *)
(***************************************************************************)
\* the file can be read whole: it is there and none of its lines is bad
Readable(file) ==
    /\ file # MissingFile
    /\ file.kind = "lines" => \A i \in 1..Len(file.lines) : file.lines[i] # BadLine

\* the complete list of the records of a readable file
RecordsOf(file) ==
    IF file.kind = "array" THEN file.records
    ELSE SelectSeq(file.lines, LAMBDA l : l \in JsonRecords)

\* C24: after any sequence of _load_data calls, failed ones included, the
\* cached data is unset or the complete list of the records of the file, and
\* get_all returns nothing but that complete list: a call that raised leaves
\* no partly filled cache for a later call to return.
C24_CacheUnsetOrComplete ==
    Constructed =>
        /\ \/ repository.data = NoneData
           \/ /\ Readable(repository.file)
              /\ repository.data = ListData(RecordsOf(repository.file))
        /\ repository.op = "get_all" /\ "returned" \in DOMAIN repository.result =>
              /\ Readable(repository.file)
              /\ repository.result.returned = ListData(RecordsOf(repository.file))

\* the same for files of lines that hold no bad line and more than one
\* record, and for arrays: what holds of the cache
C24_WellFormedFilesLoadWhole ==
    /\ Constructed
    /\ Readable(repository.file)
    /\ repository.file.kind = "lines" => Len(RecordsOf(repository.file)) # 1
    => \/ repository.data = NoneData
       \/ repository.data = ListData(RecordsOf(repository.file))


(***************************************************************************)
(* A claim about the request-scoped session (checked under SpecSession).   *)
(***************************************************************************)
\* the request's session has been opened and its generator has run to its end
SessionOver == session.state # "none" /\ session.finished

\* C22: the session of a request is closed on every exit path (normal
\* completion, a validation or not-found failure, a query error), and not
\* before the request's work has ended; when the request raised, the session
\* was rolled back and the same exception is re-raised to the caller, and
\* nothing is raised or rolled back otherwise.
C22_SessionClosedOnEveryPath ==
    /\ SessionOver => session.state = "closed"
    /\ session.state = "closed" => pc = "done" /\ session.finished
    /\ pc = "idle" => session.state \in {"none", "open"}
    /\ SessionOver /\ response.status # HTTP_200_OK =>
          /\ session.rolled_back
          /\ session.raised = response.body
          /\ session.raised # NoException
    /\ SessionOver /\ response.status = HTTP_200_OK =>
          /\ ~session.rolled_back
          /\ session.raised = NoException

\* a lookup whose query failed in the database: the session is closed and
\* rolled back and the database's error has reached the caller
C22_Witness ==
    /\ SessionOver
    /\ pc = "done"
    /\ calls = <<"get_by_id">>
    /\ response.status = 0
    /\ response.body = OperationalError
    /\ session.state = "closed"
    /\ session.rolled_back
    /\ session.raised = OperationalError


(***************************************************************************)
(* A claim about the wiring (checked under SpecWiring).                    *)
(***************************************************************************)
\* C30: every operation the analytics endpoints depend on is provided: the
\* concrete ReviewRepository and AnalyticsService define every abstract
\* operation of their interfaces, the category timelines included, so both
\* can be instantiated, and the dependencies module provides the
\* get_analytics_service that the analytics endpoints import.
C30_WiringComplete ==
    /\ Answered("ReviewRepository(db)") => response.status = HTTP_200_OK
    /\ Answered("AnalyticsService(...)") => response.status = HTTP_200_OK
    /\ Answered("import api.endpoints.analytics") => response.status = HTTP_200_OK

\* the business side of the wiring is complete: BusinessService can be
\* instantiated and the provider the business endpoints import exists
C30_BusinessWiringComplete ==
    /\ Answered("BusinessService(...)") => response.status = HTTP_200_OK
    /\ Answered("import api.endpoints.businesses") => response.status = HTTP_200_OK

=============================================================================
